---------------------------- MODULE Spec2Model ----------------------------
(***************************************************************************)
(* Action lifecycle engine of the file organizer: apply_actions            *)
(* (crates/cli/src/apply.rs), the filesystem edits behind it               *)
(* (crates/cli/src/fs_apply.rs), the safety gate (crates/cli/src/paths.rs) *)
(* and undo_actions (crates/cli/src/undo.rs).                              *)
(*                                                                         *)
(* A path is the sequence of its characters, so that starts_with,          *)
(* file_name, file_stem, extension and the {stem}_{n}.{ext} formatting are *)
(* computed on the text as the code computes them.  The filesystem is a    *)
(* function from the paths of the regular files that exist to their        *)
(* content; directories are created on demand (create_dir_all) and are not *)
(* files.  A handler is a sequence of steps: one that runs the SELECT, one *)
(* per fetched row (the body of the `for row in rows` loop), one that      *)
(* returns.  A handler runs to its end before the next call starts.        *)
(***************************************************************************)
EXTENDS Integers, Sequences, FiniteSets, TLC

VARIABLES
    fs,        \* path -> content, for the regular files that exist
    actions,   \* actions table: id -> row
    file_tags, \* file_tags table: set of <<file_id, tag name>>
    tags,      \* tags table: set of tag names
    dirty,     \* dirty table: path -> reason
    safety,    \* SafetyConfig in force (config file plus overrides)
    files,     \* files table: id -> path
    run,       \* the handler in progress: its arguments, fetched rows, views
    applied,   \* history: id -> content of the source when apply last executed it
    calls,     \* number of handler calls started
    file_meta, \* files table, the columns besides path: id -> row
    chunks,    \* chunks table: set of rows
    metadata,  \* metadata table: set of rows
    points,    \* vector store collection: point id -> payload
    kwindex,   \* keyword index directory: meta.json present, documents by path
    audit,     \* audit table: the rows in insertion order
    ix         \* indexing side: sequences, counters and handlers in progress

\* The tables and stores that only the indexing side (scanner, extractor,
\* embedder, suggester, pipeline, watcher) writes.
ixvars == <<file_meta, chunks, metadata, points, kwindex, audit, ix>>

vars == <<fs, actions, file_tags, tags, dirty, safety, files, run, applied, calls,
          file_meta, chunks, metadata, points, kwindex, audit, ix>>

\* Number of apply_actions / undo_actions calls in one behaviour.
MaxCalls == 2

-----------------------------------------------------------------------------
(* Paths and names *)

NoPath == <<>>

SrcA == <<"/", "s", "/", "a", ".", "t">>
SrcB == <<"/", "x", "/", "a", ".", "t">>
Dst == <<"/", "d", "/", "a", ".", "t">>
Dst1 == <<"/", "d", "/", "a", "_", "1", ".", "t">>
DstNoExt == <<"/", "d", "/", "b">>
TrashDir == <<"/", "t">>
TrashA == <<"/", "t", "/", "a", ".", "t">>

AllowS == <<"/", "s">>
DenySA == <<"/", "s", "/", "a">>

\* Content of a file truncated to length 0.
Empty == "empty"

\* str::starts_with
StartsWith(s, prefix) ==
    /\ Len(prefix) <= Len(s)
    /\ SubSeq(s, 1, Len(prefix)) = prefix

\* Index of the last occurrence of ch in s, 0 when there is none.
LastIndexOf(s, ch) ==
    LET hits == {i \in 1..Len(s) : s[i] = ch}
    IN  IF hits = {} THEN 0 ELSE CHOOSE i \in hits : \A j \in hits : j <= i

\* Path::file_name (the empty name stands for None)
FileName(p) == SubSeq(p, LastIndexOf(p, "/") + 1, Len(p))

\* Path::parent
Parent(p) ==
    LET i == LastIndexOf(p, "/")
    IN  IF i = 0 THEN <<>>
        ELSE IF i = 1 THEN <<"/">>
        ELSE SubSeq(p, 1, i - 1)

\* Path::join with a relative name
Join(dir, name) ==
    IF dir = <<>> THEN name
    ELSE IF dir[Len(dir)] = "/" THEN dir \o name
    ELSE dir \o <<"/">> \o name

\* Path::file_stem: the name up to its last dot; the whole name when it has
\* no dot or only a leading one.
FileStem(p) ==
    LET n == FileName(p)
        i == LastIndexOf(n, ".")
    IN  IF i <= 1 THEN n ELSE SubSeq(n, 1, i - 1)

\* Path::extension: what follows the last dot (empty stands for None).
Extension(p) ==
    LET n == FileName(p)
        i == LastIndexOf(n, ".")
    IN  IF i <= 1 THEN <<>> ELSE SubSeq(n, i + 1, Len(n))

Digit(d) ==
    CASE d = 0 -> "0" [] d = 1 -> "1" [] d = 2 -> "2" [] d = 3 -> "3"
      [] d = 4 -> "4" [] d = 5 -> "5" [] d = 6 -> "6" [] d = 7 -> "7"
      [] d = 8 -> "8" [] d = 9 -> "9"

\* Display of a counter, as format!("{}") prints it.
RECURSIVE Digits(_)
Digits(n) == IF n < 10 THEN <<Digit(n)>> ELSE Digits(n \div 10) \o <<Digit(n % 10)>>

\* format!("{}_{}", stem, counter) or format!("{}_{}.{}", stem, counter, ext)
CounterName(stem, counter, ext) ==
    IF ext = <<>>
    THEN stem \o <<"_">> \o Digits(counter)
    ELSE stem \o <<"_">> \o Digits(counter) \o <<".">> \o ext

-----------------------------------------------------------------------------
(* std::fs on the modelled filesystem *)

Exists(f, p) == p \in DOMAIN f

Write(f, p, c) == [q \in DOMAIN f \cup {p} |-> IF q = p THEN c ELSE f[q]]

Remove(f, p) == [q \in DOMAIN f \ {p} |-> f[q]]

\* fs::copy: fails when the source is no file; opens the destination with
\* truncate before it reads, so a copy onto itself leaves an empty file.
FsCopy(f, from, to) ==
    IF ~Exists(f, from) THEN [ok |-> FALSE, fs |-> f]
    ELSE IF from = to THEN [ok |-> TRUE, fs |-> Write(f, to, Empty)]
    ELSE [ok |-> TRUE, fs |-> Write(f, to, f[from])]

\* fs::rename: fails when the source is missing, replaces an existing file.
FsRename(f, from, to) ==
    IF ~Exists(f, from) THEN [ok |-> FALSE, fs |-> f]
    ELSE IF from = to THEN [ok |-> TRUE, fs |-> f]
    ELSE [ok |-> TRUE, fs |-> Write(Remove(f, from), to, f[from])]

\* fs::remove_file
FsRemove(f, p) ==
    IF ~Exists(f, p) THEN [ok |-> FALSE, fs |-> f]
    ELSE [ok |-> TRUE, fs |-> Remove(f, p)]

-----------------------------------------------------------------------------
(* crates/cli/src/paths.rs *)

\* A gate that looks at the allow list first, so that allow overrides deny.
is_allowed_allow_first(path, allow, deny) ==
    IF allow # <<>> /\ \E i \in 1..Len(allow) : StartsWith(path, allow[i]) THEN TRUE
    ELSE IF \E i \in 1..Len(deny) : StartsWith(path, deny[i]) THEN FALSE
    ELSE allow = <<>>

\* is_allowed: a deny prefix rejects; an empty allow list accepts; otherwise
\* some allow prefix must match.
is_allowed(path, allow, deny) ==
    IF \E i \in 1..Len(deny) : StartsWith(path, deny[i]) THEN FALSE
    ELSE IF allow = <<>> THEN TRUE
    ELSE \E i \in 1..Len(allow) : StartsWith(path, allow[i])

-----------------------------------------------------------------------------
(* crates/cli/src/fs_apply.rs *)

\* A payload is the parsed JSON object: a function from its keys to values.
Has(payload, key) == key \in DOMAIN payload

\* v.get(key).and_then(as_str) for a key that holds a path: the empty path
\* stands for None.
Field(payload, key) == IF Has(payload, key) THEN payload[key] ELSE <<>>

\* parse_action
parse_action(path, kind, payload) ==
    CASE kind \in {"move", "rename"} ->
            [kind |-> "Move", from |-> path,
             to |-> IF Field(payload, "to") = <<>> THEN path ELSE Field(payload, "to")]
      [] kind = "tag" -> [kind |-> "Tag"]
      [] kind = "dedupe" -> [kind |-> "Dedupe"]
      [] kind = "merge_duplicate" ->
            [kind |-> "MergeDuplicate", from |-> path,
             target |-> Field(payload, "duplicate_of"),
             strategy |-> IF Has(payload, "strategy") THEN payload["strategy"]
                          ELSE "trash"]
      [] OTHER -> [kind |-> "Unsupported"]

\* The counter loop shared by backup_to_trash and resolve_conflict: the first
\* {stem}_{counter}{.ext} in dir that does not exist.
RECURSIVE FirstFree(_, _, _, _, _)
FirstFree(f, dir, stem, ext, counter) ==
    LET candidate == Join(dir, CounterName(stem, counter, ext))
    IN  IF ~Exists(f, candidate) THEN candidate
        ELSE FirstFree(f, dir, stem, ext, counter + 1)

\* backup_to_trash: picks the name, copies (the copy's result is dropped),
\* returns the name.
backup_to_trash(f, src, trash_dir) ==
    LET name == IF FileName(src) = <<>> THEN <<"b", "a", "c", "k", "u", "p">>
                ELSE FileName(src)
        first == Join(trash_dir, name)
        candidate == IF Exists(f, first)
                     THEN FirstFree(f, trash_dir, FileStem(first), Extension(first), 1)
                     ELSE first
    IN  [fs |-> FsCopy(f, src, candidate).fs, path |-> candidate]

\* A resolve_conflict that takes {stem}_1{.ext} without looking.
resolve_conflict_no_loop(f, dest) ==
    Join(Parent(dest),
         CounterName(IF FileStem(dest) = <<>> THEN <<"f", "i", "l", "e">> ELSE FileStem(dest),
                     1, Extension(dest)))

\* resolve_conflict
resolve_conflict(f, dest) ==
    FirstFree(f, Parent(dest),
              IF FileStem(dest) = <<>> THEN <<"f", "i", "l", "e">> ELSE FileStem(dest),
              Extension(dest), 1)

\* apply_move: Ok(backup) or Err, and the filesystem it leaves.
apply_move(f, from, to, trash_dir, copy_then_delete) ==
    LET b == IF trash_dir # NoPath THEN backup_to_trash(f, from, trash_dir)
             ELSE [fs |-> f, path |-> NoPath]
        moved == IF copy_then_delete
                 THEN LET c == FsCopy(b.fs, from, to)
                      IN  IF c.ok THEN FsRemove(c.fs, from) ELSE c
                 ELSE FsRename(b.fs, from, to)
    IN  [ok |-> moved.ok, fs |-> moved.fs, backup |-> IF moved.ok THEN b.path ELSE NoPath]

\* A move arm that backs the source up before it looks at the policy.
apply_move_action_backup_first(f, from, to, trash_dir, copy_then_delete, conflict_policy) ==
    IF Exists(f, to) /\ conflict_policy = "skip"
    THEN [ok |-> TRUE,
          fs |-> IF trash_dir # NoPath THEN backup_to_trash(f, from, trash_dir).fs ELSE f,
          backup |-> NoPath]
    ELSE LET target == IF ~Exists(f, to) \/ conflict_policy = "overwrite" THEN to
                       ELSE resolve_conflict(f, to)
         IN  apply_move(f, from, target, trash_dir, copy_then_delete)

\* The Move | Rename arm of apply_action.
apply_move_action(f, from, to, trash_dir, copy_then_delete, conflict_policy) ==
    IF Exists(f, to) /\ conflict_policy = "skip"
    THEN [ok |-> TRUE, fs |-> f, backup |-> NoPath]
    ELSE LET target == IF ~Exists(f, to) \/ conflict_policy = "overwrite" THEN to
                       ELSE resolve_conflict(f, to)
         IN  apply_move(f, from, target, trash_dir, copy_then_delete)

\* A merge that hands the caller's conflict policy to the move.
apply_merge_duplicate_caller_policy(f, from, target, strategy, trash_dir, copy_then_delete, conflict_policy) ==
    IF strategy = "replace"
    THEN apply_move_action(f, from, target, trash_dir, copy_then_delete, conflict_policy)
    ELSE IF trash_dir # NoPath
    THEN LET b == backup_to_trash(f, from, trash_dir)
         IN  [ok |-> TRUE, fs |-> FsRemove(b.fs, from).fs, backup |-> b.path]
    ELSE [ok |-> TRUE, fs |-> FsRemove(f, from).fs, backup |-> NoPath]

\* A merge that removes the duplicate before it backs it up.
apply_merge_duplicate_remove_first(f, from, target, strategy, trash_dir, copy_then_delete, conflict_policy) ==
    IF strategy = "replace"
    THEN apply_move_action(f, from, target, trash_dir, copy_then_delete, "overwrite")
    ELSE IF trash_dir # NoPath
    THEN LET b == backup_to_trash(FsRemove(f, from).fs, from, trash_dir)
         IN  [ok |-> TRUE, fs |-> b.fs, backup |-> b.path]
    ELSE [ok |-> TRUE, fs |-> FsRemove(f, from).fs, backup |-> NoPath]

\* The MergeDuplicate arm of apply_action: "replace" recurses as a move under
\* "overwrite", whatever conflict_policy is.
apply_merge_duplicate(f, from, target, strategy, trash_dir, copy_then_delete, conflict_policy) ==
    IF strategy = "replace"
    THEN apply_move_action(f, from, target, trash_dir, copy_then_delete, "overwrite")
    ELSE IF trash_dir # NoPath
    THEN LET b == backup_to_trash(f, from, trash_dir)
         IN  [ok |-> TRUE, fs |-> FsRemove(b.fs, from).fs, backup |-> b.path]
    ELSE [ok |-> TRUE, fs |-> FsRemove(f, from).fs, backup |-> NoPath]

\* apply_action
apply_action(f, action, trash_dir, copy_then_delete, conflict_policy) ==
    CASE action.kind = "Move" ->
            apply_move_action(f, action.from, action.to, trash_dir,
                              copy_then_delete, conflict_policy)
      [] action.kind = "MergeDuplicate" ->
            apply_merge_duplicate(f, action.from, action.target, action.strategy,
                                  trash_dir, copy_then_delete, conflict_policy)
      [] OTHER -> [ok |-> TRUE, fs |-> f, backup |-> NoPath]

-----------------------------------------------------------------------------
(* crates/cli/src/apply.rs and crates/cli/src/undo.rs: the handlers *)

Idle ==
    [op |-> "idle", dry_run |-> FALSE, conflict |-> "", backup_override |-> NoPath,
     rows |-> <<>>, queue |-> <<>>, views |-> <<>>]

\* An id filter: None (all) or the ids of the comma-separated list.
Filters == {[all |-> TRUE, ids |-> {}], [all |-> FALSE, ids |-> {1}], [all |-> FALSE, ids |-> {2}]}

RECURSIVE Ascending(_)
Ascending(S) ==
    IF S = {} THEN <<>>
    ELSE LET m == CHOOSE x \in S : \A y \in S : x <= y
         IN  <<m>> \o Ascending(S \ {m})

\* A SELECT that forgets the status condition.
SelectRowsAnyStatus(status, filter) ==
    Ascending({a \in DOMAIN actions :
                  /\ actions[a].file_id \in DOMAIN files
                  /\ filter.all \/ a \in filter.ids})

\* The SELECT of both handlers: actions JOIN files WHERE status = ?
\* [AND actions.id IN (ids)], in rowid order.
SelectRows(status, filter) ==
    Ascending({a \in DOMAIN actions :
                  /\ actions[a].status = status
                  /\ actions[a].file_id \in DOMAIN files
                  /\ filter.all \/ a \in filter.ids})

\* INSERT OR REPLACE INTO dirty(path, reason, ...) for each path of ps
RECURSIVE MarkDirty(_, _, _)
MarkDirty(d, ps, reason) ==
    IF ps = <<>> THEN d ELSE MarkDirty(Write(d, Head(ps), reason), Tail(ps), reason)

\* dirty_paths of a row: its path and, when the payload has one, "to".
dirty_paths(path, payload) ==
    IF Field(payload, "to") # <<>> THEN <<path, Field(payload, "to")>> ELSE <<path>>

ActionView(id, status, error, backup) ==
    [id |-> id, status |-> status, error |-> error, backup |-> backup]

ApplyBegin(dry_run, filter, conflict) ==
    /\ run.op = "idle"
    /\ calls < MaxCalls
    /\ calls' = calls + 1
    /\ run' = [Idle EXCEPT !.op = "apply", !.dry_run = dry_run, !.conflict = conflict,
                           !.rows = SelectRows("planned", filter),
                           !.queue = SelectRows("planned", filter)]
    /\ UNCHANGED <<fs, actions, file_tags, tags, dirty, safety, files, applied>>
    /\ UNCHANGED ixvars

\* An iteration that does not look at dry_run: it marks the row executed.
ApplyRowIgnoringDryRun ==
    /\ run.op = "apply"
    /\ run.queue # <<>>
    /\ actions' = [actions EXCEPT ![Head(run.queue)].status = "executed"]
    /\ run' = [run EXCEPT !.queue = Tail(@),
                          !.views = Append(@, ActionView(Head(run.queue), "executed", "", NoPath))]
    /\ UNCHANGED <<fs, file_tags, tags, dirty, applied, safety, files, calls>>
    /\ UNCHANGED ixvars

\* One iteration of `for row in rows` of apply_actions.
ApplyRow ==
    /\ run.op = "apply"
    /\ run.queue # <<>>
    /\ LET id == Head(run.queue)
           row == actions[id]
           path == files[row.file_id]
           next(view) == [run EXCEPT !.queue = Tail(@), !.views = Append(@, view)]
       IN  IF run.dry_run
           THEN /\ run' = next(ActionView(id, row.status, "", NoPath))
                /\ UNCHANGED <<fs, actions, file_tags, tags, dirty, applied>>
           ELSE IF ~is_allowed(path, safety.allow_paths, safety.deny_paths)
           THEN /\ actions' = [actions EXCEPT ![id].status = "error"]
                /\ run' = next(ActionView(id, row.status, "path denied", NoPath))
                /\ UNCHANGED <<fs, file_tags, tags, dirty, applied>>
           ELSE IF row.kind = "tag"
           THEN /\ IF Has(row.payload, "tag")
                   THEN /\ tags' = tags \cup {row.payload["tag"]}
                        /\ file_tags' = file_tags \cup {<<row.file_id, row.payload["tag"]>>}
                        /\ actions' = [actions EXCEPT ![id].status = "executed",
                                                      ![id].executed_at = "now"]
                        /\ run' = next(ActionView(id, "executed", "", NoPath))
                   ELSE /\ actions' = [actions EXCEPT ![id].status = "error"]
                        /\ run' = next(ActionView(id, row.status, "invalid tag payload", NoPath))
                        /\ UNCHANGED <<tags, file_tags>>
                /\ dirty' = MarkDirty(dirty, dirty_paths(path, row.payload), "apply")
                /\ UNCHANGED <<fs, applied>>
           ELSE LET r == apply_action(fs, parse_action(path, row.kind, row.payload),
                                      safety.trash_dir, safety.copy_then_delete,
                                      run.conflict)
                    backup_path == IF r.backup # NoPath THEN r.backup ELSE safety.trash_dir
                IN  /\ fs' = r.fs
                    /\ IF r.ok
                       THEN /\ actions' = [actions EXCEPT ![id].status = "executed",
                                                          ![id].executed_at = "now",
                                                          ![id].backup_path = backup_path]
                            /\ run' = next(ActionView(id, "executed", "", backup_path))
                            /\ applied' = [applied EXCEPT ![id] =
                                              IF Exists(fs, path) THEN fs[path] ELSE "absent"]
                       ELSE /\ actions' = [actions EXCEPT ![id].status = "error"]
                            /\ run' = next(ActionView(id, row.status, "io error", NoPath))
                            /\ UNCHANGED applied
                    /\ dirty' = MarkDirty(dirty, dirty_paths(path, row.payload), "apply")
                    /\ UNCHANGED <<file_tags, tags>>
    /\ UNCHANGED <<safety, files, calls>>
    /\ UNCHANGED ixvars

\* Ok(views)
ApplyReturn ==
    /\ run.op = "apply"
    /\ run.queue = <<>>
    /\ run' = Idle
    /\ UNCHANGED <<fs, actions, file_tags, tags, dirty, safety, files, applied, calls>>
    /\ UNCHANGED ixvars

UndoBegin(filter, backup_override) ==
    /\ run.op = "idle"
    /\ calls < MaxCalls
    /\ calls' = calls + 1
    /\ run' = [Idle EXCEPT !.op = "undo", !.backup_override = backup_override,
                           !.rows = SelectRows("executed", filter),
                           !.queue = SelectRows("executed", filter)]
    /\ UNCHANGED <<fs, actions, file_tags, tags, dirty, safety, files, applied>>
    /\ UNCHANGED ixvars

\* backup_override.or_else(|| backup_col.or_else(|| extract_backup(payload)))
backup_source(backup_override, row) ==
    IF backup_override # NoPath THEN backup_override
    ELSE IF row.backup_path # NoPath THEN row.backup_path
    ELSE Field(row.payload, "backup")

\* A restore that reports success whatever fs::copy returned.
restore_ignoring_copy_result(f, backup, dest) ==
    IF backup = NoPath \/ Exists(f, dest) THEN [ok |-> FALSE, fs |-> f]
    ELSE [ok |-> TRUE, fs |-> FsCopy(f, backup, dest).fs]

\* A restore without the dest.exists() check.
restore_over_live_file(f, backup, dest) ==
    IF backup = NoPath THEN [ok |-> FALSE, fs |-> f]
    ELSE FsCopy(f, backup, dest)

\* The restore of one row: nothing when there is no backup source or the
\* original path exists, else copy the backup to the original path.
restore(f, backup, dest) ==
    IF backup = NoPath \/ Exists(f, dest) THEN [ok |-> FALSE, fs |-> f]
    ELSE FsCopy(f, backup, dest)

\* One iteration of `for row in rows` of undo_actions.
UndoRow ==
    /\ run.op = "undo"
    /\ run.queue # <<>>
    /\ LET id == Head(run.queue)
           row == actions[id]
           path == files[row.file_id]
           r == restore(fs, backup_source(run.backup_override, row), path)
       IN  /\ fs' = r.fs
           /\ IF r.ok
              THEN /\ actions' = [actions EXCEPT ![id].status = "planned",
                                                 ![id].executed_at = "NULL"]
                   /\ dirty' = Write(dirty, path, "undo")
              ELSE UNCHANGED <<actions, dirty>>
    /\ run' = [run EXCEPT !.queue = Tail(@)]
    /\ UNCHANGED <<file_tags, tags, safety, files, applied, calls>>
    /\ UNCHANGED ixvars

\* Ok(())
UndoReturn ==
    /\ run.op = "undo"
    /\ run.queue = <<>>
    /\ run' = Idle
    /\ UNCHANGED <<fs, actions, file_tags, tags, dirty, safety, files, applied, calls>>
    /\ UNCHANGED ixvars

-----------------------------------------------------------------------------
(* Initial states: a scanned tree with two planned actions *)

Policies == {"rename", "skip", "overwrite"}

InitFiles == (1 :> SrcA) @@ (2 :> SrcB) @@ (3 :> Dst)

InitContent(p) ==
    CASE p = SrcA -> "c1" [] p = SrcB -> "c2" [] p = Dst -> "c3"
      [] p = Dst1 -> "c4" [] p = DstNoExt -> "c5" [] p = TrashA -> "c6"

\* The trees: the first source always exists; the second source, the
\* destination (alone or with its _1 neighbours) and an older backup may.
InitTrees ==
    {{SrcA} \cup b \cup d \cup t :
        b \in {{}, {SrcB}},
        d \in {{}, {Dst}, {Dst, Dst1, DstNoExt}},
        t \in {{}, {TrashA}}}

Planned(file_id, kind, payload) ==
    [file_id |-> file_id, kind |-> kind, payload |-> payload, status |-> "planned",
     executed_at |-> "NULL", backup_path |-> NoPath]

FirstActions ==
    { Planned(1, "move", [to |-> Dst]),
      Planned(1, "tag", [tag |-> "T"]),
      Planned(1, "tag", [rule |-> "r"]),
      Planned(2, "dedupe", [duplicate_of |-> Dst]),
      Planned(2, "move", [to |-> Dst]) }

SecondActions ==
    { Planned(2, "move", [to |-> Dst]),
      Planned(2, "rename", [to |-> DstNoExt]),
      Planned(2, "merge_duplicate", [duplicate_of |-> Dst, strategy |-> "trash"]),
      Planned(2, "merge_duplicate", [duplicate_of |-> Dst, strategy |-> "replace"]),
      Planned(2, "merge_duplicate", [duplicate_of |-> Dst]),
      Planned(2, "chmod", [mode |-> "r"]),
      Planned(1, "move", [to |-> SrcB]) }

SafetyConfigs ==
    [allow_paths : {<<>>, <<AllowS>>}, deny_paths : {<<>>, <<DenySA>>},
     trash_dir : {NoPath, TrashDir}, copy_then_delete : BOOLEAN]

Init ==
    /\ \E tree \in InitTrees : fs = [p \in tree |-> InitContent(p)]
    /\ \E a \in FirstActions, b \in SecondActions : actions = (1 :> a) @@ (2 :> b)
    /\ files = InitFiles
    /\ tags = {"old", "own"}
    /\ file_tags = {<<2, "old">>, <<3, "own">>}
    /\ dirty = <<>>
    /\ safety \in SafetyConfigs
    /\ run = Idle
    /\ applied = [a \in {1, 2} |-> "never"]
    /\ calls = 0
    /\ file_meta = <<>>
    /\ chunks = {}
    /\ metadata = {}
    /\ points = <<>>
    /\ kwindex = [built |-> FALSE, docs |-> {}]
    /\ audit = <<>>
    /\ ix = [seq |-> [files |-> 3, chunks |-> 0, actions |-> 2]]

Next ==
    \/ \E dry_run \in BOOLEAN, filter \in Filters, conflict \in Policies :
          ApplyBegin(dry_run, filter, conflict)
    \/ ApplyRow
    \/ ApplyReturn
    \/ \E filter \in Filters, backup_override \in {NoPath, Dst} :
          UndoBegin(filter, backup_override)
    \/ UndoRow
    \/ UndoReturn

Spec == Init /\ [][Next]_vars

-----------------------------------------------------------------------------
(* The indexing side: content, hashes and chunks                            *)
(* (crates/core/src/extractor.rs, crates/core/src/scanner.rs)               *)
(*                                                                         *)
(* On this side the content of a file is [bytes, mtime]: its text as the   *)
(* sequence of its characters and its modification time.  BLAKE3 is        *)
(* modelled as an injective function of the bytes it is fed.               *)

\* Bytes per chunk that read_text_chunks asks for (2048 in the source).
ChunkLen == 2

\* Bytes that fast_hash and read_text_chunks read at most (64 * 1024 in the
\* source).
ReadCap == 3

WA == <<"/", "w", "/", "a", ".", "m", "d">>
WB == <<"/", "w", "/", "b", ".", "m", "d">>
WC == <<"/", "w", "/", "c", ".", "p", "d", "f">>

Min(a, b) == IF a <= b THEN a ELSE b

\* A NULL hash column, a hash that could not be computed.
NoHash == <<>>

\* blake3::Hasher over the bytes fed to it, as a hex string (never empty).
Blake3(bytes) == <<"#">> \o bytes

\* usize::to_le_bytes: a fixed-width field.
LeBytes(n) == Digits(n)

\* The first n bytes of a read.
Take(bytes, n) == SubSeq(bytes, 1, Min(n, Len(bytes)))

\* fast_hash (extractor.rs and scanner.rs carry the same function); None
\* when the file cannot be opened.
fast_hash(f, path) ==
    IF Exists(f, path) THEN Blake3(Take(f[path].bytes, ReadCap)) ELSE NoHash

\* full_hash
full_hash(f, path) ==
    IF Exists(f, path) THEN Blake3(f[path].bytes) ELSE NoHash

\* chunk_hash
chunk_hash(start, end, data) == Blake3(LeBytes(start) \o LeBytes(end) \o data)

\* text[a..b] of a Rust slice, offsets counted from 0
Slice(text, a, b) == SubSeq(text, a + 1, b)

\* One iteration of the loop of chunk_text: the end of the chunk that
\* starts at start.
chunk_end(text, max_len, start) ==
    LET slice_end == Min(start + max_len, Len(text))
        slice == Slice(text, start, slice_end)
        marks == {i \in 1..Len(slice) : slice[i] \in {".", "!", "?", "\n"}}
        spaces == {i \in 1..Len(slice) : slice[i] = " "}
        last(S) == CHOOSE i \in S : \A j \in S : j <= i
    IN  IF marks # {} THEN start + last(marks)
        ELSE IF spaces # {} THEN start + (last(spaces) - 1)
        ELSE slice_end

\* The loop of chunk_text from offset start, for at most n iterations.
RECURSIVE chunk_text_from(_, _, _, _)
chunk_text_from(text, max_len, start, n) ==
    IF start >= Len(text) \/ n = 0 THEN <<>>
    ELSE LET end == chunk_end(text, max_len, start)
             data == Slice(text, start, end)
         IN  <<[start |-> start, end |-> end, text |-> data,
                hash |-> chunk_hash(start, end, data)]>>
             \o chunk_text_from(text, max_len, end, n - 1)

\* chunk_text: a loop that advances takes at most one iteration per byte.
chunk_text(text, max_len) == chunk_text_from(text, max_len, 0, Len(text))

\* guess_mime: plain text has no magic number to sniff, so the extension
\* decides.
guess_mime(path) ==
    LET ext == Extension(path)
    IN  IF ext = <<>> THEN "None"
        ELSE IF ext \in {<<"t", "x", "t">>, <<"m", "d">>, <<"l", "o", "g">>} THEN "text/plain"
        ELSE IF ext = <<"p", "d", "f">> THEN "application/pdf"
        ELSE "application/octet-stream"

\* is_texty
is_texty(mime) == mime = "text/plain"

\* extract: fails when the file has no metadata; a texty file is read up to
\* ReadCap bytes and chunked; the other parsers are not compiled in and
\* yield no chunks.
extract(f, path) ==
    IF ~Exists(f, path) THEN [ok |-> FALSE]
    ELSE LET mime == guess_mime(path)
         IN  [ok |-> TRUE, mime |-> mime,
              chunks |-> IF is_texty(mime)
                         THEN chunk_text(Take(f[path].bytes, ReadCap), ChunkLen)
                         ELSE <<>>]

-----------------------------------------------------------------------------
(* The database as the indexing handlers see it *)

\* The tables, as one value that a handler threads through its statements.
DB ==
    [files |-> files, meta |-> file_meta, chunks |-> chunks, metadata |-> metadata,
     actions |-> actions, file_tags |-> file_tags, tags |-> tags, dirty |-> dirty,
     audit |-> audit, seq |-> ix.seq]

\* The tables after a handler, but for the sequences kept in ix.
StoreDB(d) ==
    /\ files' = d.files
    /\ file_meta' = d.meta
    /\ chunks' = d.chunks
    /\ metadata' = d.metadata
    /\ actions' = d.actions
    /\ file_tags' = d.file_tags
    /\ tags' = d.tags
    /\ dirty' = d.dirty
    /\ audit' = d.audit

\* SELECT id FROM files WHERE path = ?  (0 when there is no row)
FileId(d, path) ==
    IF \E i \in DOMAIN d.files : d.files[i] = path
    THEN CHOOSE i \in DOMAIN d.files : d.files[i] = path
    ELSE 0

\* INSERT OR REPLACE INTO dirty (path, reason)
mark_dirty(d, path, reason) == [d EXCEPT !.dirty = Write(@, path, reason)]

-----------------------------------------------------------------------------
(* crates/core/src/scanner.rs *)

HashModes == {"none", "fast", "full"}

\* is_hidden
is_hidden(path) ==
    LET n == FileName(path) IN n # <<>> /\ n[1] = "."

\* The order in which WalkDir yields the entries of the tree.
WalkOrder == <<WA, WB, WC>>

\* The walker task of scan: one ScannedItem per regular file under a root.
ScannedItems(f, roots, hash_mode) ==
    LET seen(p) == /\ Exists(f, p)
                   /\ \E r \in roots : StartsWith(p, r)
                   /\ ~is_hidden(p)
        item(p) == [path |-> p, size |-> Len(f[p].bytes), mtime |-> f[p].mtime,
                    hash |-> CASE hash_mode = "none" -> NoHash
                                [] hash_mode = "fast" -> fast_hash(f, p)
                                [] hash_mode = "full" -> full_hash(f, p)]
    IN  [i \in 1..Len(SelectSeq(WalkOrder, seen)) |-> item(SelectSeq(WalkOrder, seen)[i])]

\* An upsert without the WHERE of its ON CONFLICT clause: every conflict
\* updates the row and enqueues the path.
upsert_file_in_db_always_dirty(d, item) ==
    LET id == FileId(d, item.path)
        nid == d.seq.files + 1
        row == [size |-> item.size, mtime |-> item.mtime, hash |-> item.hash,
                fast_hash |-> NoHash, full_hash |-> NoHash, mime |-> "NULL",
                ext |-> Extension(item.path), status |-> "new"]
    IN  IF id = 0
        THEN mark_dirty([d EXCEPT !.files = (nid :> item.path) @@ @,
                                  !.meta = (nid :> row) @@ @,
                                  !.seq.files = nid], item.path, "rescan")
        ELSE mark_dirty([d EXCEPT !.meta[id].size = item.size,
                                  !.meta[id].mtime = item.mtime,
                                  !.meta[id].hash = item.hash,
                                  !.meta[id].status = "seen"], item.path, "rescan")

\* upsert_file_in_db: INSERT ... ON CONFLICT(path) DO UPDATE ... WHERE size,
\* mtime or COALESCE(hash, '') differs; the path is enqueued when a row was
\* affected.
upsert_file_in_db(d, item) ==
    LET id == FileId(d, item.path)
        nid == d.seq.files + 1
        row == [size |-> item.size, mtime |-> item.mtime, hash |-> item.hash,
                fast_hash |-> NoHash, full_hash |-> NoHash, mime |-> "NULL",
                ext |-> Extension(item.path), status |-> "new"]
    IN  IF id = 0
        THEN mark_dirty([d EXCEPT !.files = (nid :> item.path) @@ @,
                                  !.meta = (nid :> row) @@ @,
                                  !.seq.files = nid], item.path, "rescan")
        ELSE IF \/ d.meta[id].size # item.size
                \/ d.meta[id].mtime # item.mtime
                \/ d.meta[id].hash # item.hash
        THEN mark_dirty([d EXCEPT !.meta[id].size = item.size,
                                  !.meta[id].mtime = item.mtime,
                                  !.meta[id].hash = item.hash,
                                  !.meta[id].status = "seen"], item.path, "rescan")
        ELSE d

\* The consumer loop of scan: one upsert per item received.
RECURSIVE scan_items(_, _)
scan_items(d, items) ==
    IF items = <<>> THEN d
    ELSE scan_items(upsert_file_in_db(d, Head(items)), Tail(items))

\* scan
scan(f, d, roots, hash_mode) == scan_items(d, ScannedItems(f, roots, hash_mode))

-----------------------------------------------------------------------------
(* crates/core/src/extractor.rs: run_extractor *)

\* Option::or on hash columns
OrElse(a, b) == IF a # NoHash THEN a ELSE b

\* SELECT f.* FROM files f JOIN dirty d ON f.path = d.path
DirtyFiles(d) == Ascending({i \in DOMAIN d.files : d.files[i] \in DOMAIN d.dirty})

\* SELECT hash FROM chunks WHERE file_id = ?
ChunkHashes(d, id) == {c.hash : c \in {x \in d.chunks : x.file_id = id}}

\* DELETE FROM dirty WHERE path = ?
clear_dirty(d, path) == [d EXCEPT !.dirty = Remove(@, path)]

\* The short-circuit of run_extractor: the hash of the file as it is now
\* equals the stored one.
hash_matches(f, file, path) ==
    LET stored_full == OrElse(file.full_hash, file.hash)
        stored_fast == OrElse(file.fast_hash, file.hash)
        stored == OrElse(stored_full, stored_fast)
        current == IF stored_full # NoHash THEN full_hash(f, path) ELSE fast_hash(f, path)
    IN  stored # NoHash /\ current # NoHash /\ current = stored

\* An insert that does not skip the hashes the file already has.
RECURSIVE insert_chunks_always(_, _, _, _)
insert_chunks_always(d, id, cs, existing) ==
    IF cs = <<>> THEN d
    ELSE LET c == Head(cs)
             cid == d.seq.chunks + 1
             row == [id |-> cid, file_id |-> id, hash |-> c.hash, start |-> c.start,
                     end |-> c.end, text_preview |-> c.text]
         IN  insert_chunks_always([d EXCEPT !.chunks = @ \cup {row}, !.seq.chunks = cid],
                                  id, Tail(cs), existing)

\* INSERT INTO chunks for the chunks of cs whose hash is not in existing
RECURSIVE insert_chunks(_, _, _, _)
insert_chunks(d, id, cs, existing) ==
    IF cs = <<>> THEN d
    ELSE LET c == Head(cs)
             cid == d.seq.chunks + 1
             row == [id |-> cid, file_id |-> id, hash |-> c.hash, start |-> c.start,
                     end |-> c.end, text_preview |-> c.text]
         IN  IF c.hash \in existing THEN insert_chunks(d, id, Tail(cs), existing)
             ELSE insert_chunks([d EXCEPT !.chunks = @ \cup {row}, !.seq.chunks = cid],
                                id, Tail(cs), existing)

\* The transaction of run_extractor for one file: the chunk-set diff, the
\* update of the file row, the dirty row.
store_extracted(f, d, id, extracted) ==
    LET path == d.files[id]
        existing == ChunkHashes(d, id)
        new_hashes == {extracted.chunks[i].hash : i \in 1..Len(extracted.chunks)}
        to_delete == existing \ new_hashes
        d1 == [d EXCEPT !.chunks = {c \in @ : ~(c.file_id = id /\ c.hash \in to_delete)}]
        d2 == insert_chunks(d1, id, extracted.chunks, existing)
        changed == to_delete # {} \/ new_hashes \ existing # {}
        h == fast_hash(f, path)
        d3 == [d2 EXCEPT !.meta[id].mime = extracted.mime,
                         !.meta[id].fast_hash = IF h = NoHash THEN @ ELSE OrElse(@, h),
                         !.meta[id].hash = IF h = NoHash THEN @ ELSE OrElse(@, h)]
    IN  IF changed \/ extracted.chunks # <<>> THEN clear_dirty(d3, path) ELSE d3

\* One iteration of `for file in dirty_files`, for the row of id as the
\* SELECT returned it: the short-circuit, or the extraction and its
\* transaction; `extract(..)?` fails the run.
extract_one(f, d, rows, id) ==
    LET path == rows.files[id]
        extracted == extract(f, path)
    IN  IF hash_matches(f, rows.meta[id], path) THEN [ok |-> TRUE, db |-> clear_dirty(d, path)]
        ELSE IF ~extracted.ok THEN [ok |-> FALSE, db |-> d]
        ELSE [ok |-> TRUE, db |-> store_extracted(f, d, id, extracted)]

\* The loop `for file in dirty_files`, for the rows still to process.
RECURSIVE extract_files(_, _, _, _)
extract_files(f, d, rows, queue) ==
    IF queue = <<>> THEN [ok |-> TRUE, db |-> d]
    ELSE LET r == extract_one(f, d, rows, Head(queue))
         IN  IF ~r.ok THEN r ELSE extract_files(f, r.db, rows, Tail(queue))

\* run_extractor: the rows are those the SELECT returned.
run_extractor(f, d) == extract_files(f, d, d, DirtyFiles(d))

-----------------------------------------------------------------------------
(* The vector store (crates/providers/src/qdrant.rs) *)

\* QdrantClient::upsert: PUT /points replaces the points of the same id.
qdrant_upsert(pts, new) ==
    [i \in DOMAIN pts \cup DOMAIN new |-> IF i \in DOMAIN new THEN new[i] ELSE pts[i]]

\* A condition {"key": k, "match": {"any": values}} of a filter: the payload
\* has the key and its value is one of the values.
MatchAny(payload, cond) == Has(payload, cond.key) /\ payload[cond.key] \in cond.any

\* A filter {"must": conds}: every condition holds.
MatchMust(payload, must) == \A i \in 1..Len(must) : MatchAny(payload, must[i])

\* QdrantClient::delete_by_filter with a {"must": ..} filter
delete_by_filter(pts, must) ==
    [i \in {j \in DOMAIN pts : ~MatchMust(pts[j], must)} |-> pts[i]]

\* QdrantClient::retrieve: the ids, among those asked for, that have a point
retrieve(pts, ids) == ids \cap DOMAIN pts

\* QdrantClient::delete_by_ids
delete_by_ids(pts, ids) == [i \in DOMAIN pts \ ids |-> pts[i]]

-----------------------------------------------------------------------------
(* crates/core/src/embeddings.rs *)

\* The outcomes of the remote calls of one run: whether the probe, the
\* embedding provider, the upsert and the deletes answer.
AllUp == [retrieve_ok |-> TRUE, embed_ok |-> TRUE, upsert_ok |-> TRUE, delete_ok |-> TRUE]

Remote ==
    {AllUp, [AllUp EXCEPT !.retrieve_ok = FALSE], [AllUp EXCEPT !.embed_ok = FALSE],
     [AllUp EXCEPT !.upsert_ok = FALSE], [AllUp EXCEPT !.delete_ok = FALSE]}

\* SELECT c.*, f.path, f.mime, f.ext, f.mtime FROM chunks c JOIN files f
\* [WHERE c.file_id IN (ids)]: the chunk ids, in rowid order.  No id list,
\* or an empty one, selects every chunk.
ChunksWithFile(d, file_ids) ==
    Ascending({c.id : c \in {x \in d.chunks :
                  /\ x.file_id \in DOMAIN d.files
                  /\ file_ids = {} \/ x.file_id \in file_ids}})

ChunkById(d, cid) == CHOOSE c \in d.chunks : c.id = cid

\* The payload of the point of a chunk (path_prefixes, which nothing here
\* reads, is left out).
PointPayload(d, c) ==
    LET file == d.meta[c.file_id]
    IN  [file_id |-> c.file_id, chunk_id |-> c.id, path |-> d.files[c.file_id],
         mtime |-> file.mtime]
        @@ (IF file.mime # "NULL" THEN [mime |-> file.mime] ELSE <<>>)
        @@ (IF file.ext # <<>> THEN [ext |-> file.ext] ELSE <<>>)

\* A probe that reports nothing present.
present_points_none(pts, hashes, remote) == {}

\* The probe of the embedder: the chunk hashes that already have a point; a
\* failed retrieve adds nothing.
present_points(pts, hashes, remote) ==
    IF remote.retrieve_ok THEN retrieve(pts, hashes) ELSE {}

\* The loop over chunks.chunks(batch_size): one provider call and one upsert
\* per batch; a failed call ends the run with the error.
RECURSIVE embed_batches(_, _, _, _, _)
embed_batches(d, res, todo, batch_size, remote) ==
    IF todo = <<>> THEN res
    ELSE LET n == Min(batch_size, Len(todo))
             batch == SubSeq(todo, 1, n)
             rest == SubSeq(todo, n + 1, Len(todo))
             new == [h \in {ChunkById(d, batch[i]).hash : i \in 1..n} |->
                        PointPayload(d, ChunkById(d,
                            CHOOSE x \in {batch[i] : i \in 1..n} :
                                /\ ChunkById(d, x).hash = h
                                /\ \A y \in {batch[i] : i \in 1..n} :
                                      ChunkById(d, y).hash = h => y <= x))]
         IN  IF ~remote.embed_ok
             THEN [res EXCEPT !.ok = FALSE, !.provider_calls = @ + 1]
             ELSE IF ~remote.upsert_ok
             THEN [res EXCEPT !.ok = FALSE, !.provider_calls = @ + 1]
             ELSE embed_batches(d,
                      [res EXCEPT !.provider_calls = @ + 1, !.upserted = @ + n,
                                  !.embedded = @ + n,
                                  !.points = qdrant_upsert(@, new)],
                      rest, batch_size, remote)

\* run_embedder_for_files
run_embedder_for_files(d, pts, batch_size, file_ids, remote) ==
    LET selected == ChunksWithFile(d, file_ids)
        hashes == {ChunkById(d, selected[i]).hash : i \in 1..Len(selected)}
        present == present_points(pts, hashes, remote)
        absent(cid) == ChunkById(d, cid).hash \notin present
    IN  embed_batches(d, [ok |-> TRUE, embedded |-> 0, provider_calls |-> 0,
                          upserted |-> 0, points |-> pts],
                      SelectSeq(selected, absent), batch_size, remote)

-----------------------------------------------------------------------------
(* crates/core/src/classifier.rs *)

\* heuristic_label, for the extensions and MIME types of the model
heuristic_label(mime, ext) ==
    IF mime = "application/pdf" \/ ext = <<"p", "d", "f">> THEN "document/pdf"
    ELSE IF mime = "text/plain" \/ ext \in {<<"t", "x", "t">>, <<"m", "d">>} THEN "text"
    ELSE ""

\* run_classifier_for_files and run_classifier_no_knn_for_files: a label
\* found by the heuristics is accepted with confidence 0.9 and stored with
\* INSERT OR IGNORE in tags and file_tags.
RECURSIVE run_classifier_for_files(_, _)
run_classifier_for_files(d, ids) ==
    IF ids = <<>> THEN d
    ELSE LET id == Head(ids)
             label == heuristic_label(d.meta[id].mime, d.meta[id].ext)
         IN  IF label = "" THEN run_classifier_for_files(d, Tail(ids))
             ELSE run_classifier_for_files(
                      [d EXCEPT !.tags = @ \cup {label},
                                !.file_tags = @ \cup {<<id, label>>}], Tail(ids))

\* Confidences and scores are counted in hundredths: 0.9 is 90.
HeuristicConfidence == 90
KnnAccept == 70
AcceptThreshold == 50
\* The k of the similarity search of run_classifier.
KnnK == 5

\* QdrantClient::search with the filter must_not file_id = self: the nearest
\* points of other files, at most limit of them (with no more than limit
\* such points in the store every one of them is a hit).
search(pts, limit, file_id) ==
    LET others == {p \in DOMAIN pts : pts[p].file_id # file_id}
    IN  IF Cardinality(others) <= limit THEN others
        ELSE CHOOSE S \in SUBSET others : Cardinality(S) = limit

\* The sum of the confidence column over rows of file_tags.
RECURSIVE SumConfidence(_)
SumConfidence(rows) ==
    IF rows = {} THEN 0
    ELSE LET r == CHOOSE x \in rows : TRUE IN r[3] + SumConfidence(rows \ {r})

\* classify_knn: one search per vector of the file; every tag row of the
\* files of the hits adds its confidence to the score of its tag.  The
\* result maps each tag met to its score.
classify_knn(d, pts, file_id, vectors) ==
    LET hits == search(pts, KnnK, file_id)
        neighbor_file_ids == {pts[p].file_id : p \in hits}
        rows == {r \in d.file_tags : r[1] \in neighbor_file_ids}
    IN  [t \in {r[2] : r \in rows} |->
            Cardinality(vectors) * SumConfidence({r \in rows : r[2] = t})]

\* sorted_tags.first(): a tag of the highest score; among equal scores the
\* one the map yields first (order is the iteration order of the map).
first_candidate(scores, order) ==
    LET best == {t \in DOMAIN scores : \A u \in DOMAIN scores : scores[u] <= scores[t]}
        i == CHOOSE j \in 1..Len(order) :
                 order[j] \in best /\ \A k \in 1..(j - 1) : order[k] \notin best
    IN  order[i]

\* classify: the heuristics, then the first kNN candidate when its score is
\* above 0.7, then the LLM (the providers of the repository answer with
\* confidence 0.0 or fail), else unknown with confidence 0.
classify(mime, ext, scores, order) ==
    IF heuristic_label(mime, ext) # ""
    THEN [label |-> heuristic_label(mime, ext), confidence |-> HeuristicConfidence]
    ELSE IF DOMAIN scores # {} /\ scores[first_candidate(scores, order)] > KnnAccept
    THEN [label |-> first_candidate(scores, order),
          confidence |-> scores[first_candidate(scores, order)]]
    ELSE [label |-> "unknown", confidence |-> 0]

\* INSERT OR IGNORE INTO tags; INSERT OR IGNORE INTO file_tags(file_id,
\* tag_id, confidence, 'classifier'): (file_id, tag_id) is unique.
insert_file_tag(d, id, outcome) ==
    IF \E r \in d.file_tags : r[1] = id /\ r[2] = outcome.label
    THEN [d EXCEPT !.tags = @ \cup {outcome.label}]
    ELSE [d EXCEPT !.tags = @ \cup {outcome.label},
                   !.file_tags = @ \cup {<<id, outcome.label, outcome.confidence>>}]

\* The body of `for file in files_to_classify` of run_classifier.
classify_file(d, pts, id, order) ==
    LET vectors == retrieve(pts, ChunkHashes(d, id))
        accept(outcome) ==
            IF outcome.confidence > AcceptThreshold THEN insert_file_tag(d, id, outcome)
            ELSE d
    IN  accept(classify(d.meta[id].mime, d.meta[id].ext,
                        IF vectors # {} THEN classify_knn(d, pts, id, vectors) ELSE <<>>,
                        order))

RECURSIVE classify_files(_, _, _, _)
classify_files(d, pts, queue, order) ==
    IF queue = <<>> THEN d
    ELSE classify_files(classify_file(d, pts, Head(queue), order), pts, Tail(queue), order)

\* run_classifier: SELECT * FROM files WHERE id NOT IN (SELECT DISTINCT
\* file_id FROM file_tags), then one classification per file.
run_classifier(d, pts, order) ==
    classify_files(d, pts,
                   Ascending({i \in DOMAIN d.files : \A r \in d.file_tags : r[1] # i}),
                   order)

-----------------------------------------------------------------------------
(* crates/cli/src/keyword_index.rs, and the refresh of crates/cli/src/watch.rs *)

\* writer.delete_term(Term::from_field_text(path_field, p)): the path field
\* is STORED and not indexed, so the term has no posting and no document is
\* deleted.
delete_term(docs, p) == docs

\* build_index: delete_all, then one document per doc; meta.json exists
\* from then on.
build_index(kw, docs) == [built |-> TRUE, docs |-> docs]

\* upsert_docs: per doc, delete_term of its path and add_document
upsert_docs(kw, docs) == [kw EXCEPT !.docs = @ \cup docs]

\* delete_docs: delete_term of each path
delete_docs(kw, paths) == kw

\* keyword_index_docs_for_paths: for each path that has a file row a
\* document of the path and MIME type and, when the file has chunks, one
\* more that ends with the preview of its first chunk; the paths without a
\* file row are missing.
keyword_index_docs_for_paths(d, paths) ==
    LET found == {q \in paths : FileId(d, q) # 0}
        cs(q) == {c \in d.chunks : c.file_id = FileId(d, q)}
        first(q) == CHOOSE c \in cs(q) : \A x \in cs(q) : c.id <= x.id
        plain(q) == [path |-> q, mime |-> d.meta[FileId(d, q)].mime, text |-> <<>>]
    IN  [docs |-> {plain(q) : q \in found}
                  \cup {[plain(q) EXCEPT !.text = first(q).text_preview] :
                           q \in {x \in found : cs(x) # {}}},
         missing |-> paths \ found]

\* The index after the refresh has handled the paths it read from dirty.
refresh_index(d, kw, paths) ==
    LET r == keyword_index_docs_for_paths(d, paths)
    IN  IF kw.built
        THEN IF r.missing # {} THEN delete_docs(upsert_docs(kw, r.docs), r.missing)
             ELSE upsert_docs(kw, r.docs)
        ELSE build_index(kw, r.docs)

\* DELETE FROM dirty WHERE path IN (paths)
clear_dirty_paths(d, paths) ==
    [d EXCEPT !.dirty = [q \in DOMAIN @ \ paths |-> @[q]]]

\* refresh_keyword_index_if_dirty: SELECT path FROM dirty; nothing to do when
\* there is no row.
refresh_keyword_index_if_dirty(d, kw) ==
    IF DOMAIN d.dirty = {} THEN [db |-> d, kw |-> kw]
    ELSE [db |-> clear_dirty_paths(d, DOMAIN d.dirty),
          kw |-> refresh_index(d, kw, DOMAIN d.dirty)]

-----------------------------------------------------------------------------
(* crates/cli/src/watch.rs *)

\* The configuration the watcher runs with, besides safety.
Configs == [hash_mode : HashModes, qdrant : BOOLEAN, batch_size : {1, 2}]

\* The foreign keys of the schema: deleting a file row deletes the chunks,
\* metadata, file_tags and actions rows of the file.
on_delete_file(d, id) ==
    [d EXCEPT !.chunks = {c \in @ : c.file_id # id},
              !.metadata = {m \in @ : m.file_id # id},
              !.file_tags = {t \in @ : t[1] # id},
              !.actions = [a \in {x \in DOMAIN @ : @[x].file_id # id} |-> @[a]]]

\* INSERT INTO audit(action_id, event, detail)
insert_audit(d, action_id, event, detail) ==
    [d EXCEPT !.audit = Append(@, [action_id |-> action_id, event |-> event,
                                   detail |-> detail])]

\* collect_hashes: the hashes of the chunks of the file at path, in rowid
\* order, and the hash column of the file when a chunk row carries one.
collect_hashes(d, path) ==
    LET id == FileId(d, path)
        cs == Ascending({c.id : c \in {x \in d.chunks : x.file_id = id}})
    IN  [chunk_hashes |-> [i \in 1..Len(cs) |-> ChunkById(d, cs[i]).hash],
         file_hash |-> IF id # 0 /\ cs # <<>> THEN d.meta[id].hash ELSE NoHash]

\* A purge that deletes the actions of the file and leaves its file row.
purge_file_actions_only(d, path) ==
    LET id == FileId(d, path)
    IN  insert_audit([d EXCEPT !.actions = [a \in {x \in DOMAIN @ : @[x].file_id # id} |-> @[a]]],
                     "NULL", "file_purged", path)

\* purge_file: the actions of the file are set to error and deleted, then
\* its file row is deleted; a file_purged audit row is written.
purge_file(d, path) ==
    LET id == FileId(d, path)
        d1 == [d EXCEPT !.actions = [a \in {x \in DOMAIN @ : @[x].file_id # id} |-> @[a]]]
        d2 == IF id = 0 THEN d1
              ELSE on_delete_file([d1 EXCEPT !.files = Remove(@, id),
                                             !.meta = Remove(@, id)], id)
    IN  insert_audit(d2, "NULL", "file_purged", path)

\* SELECT COALESCE(full_hash, fast_hash, hash) FROM files WHERE path = ?
StoredHash(d, path) ==
    LET id == FileId(d, path)
    IN  IF id = 0 THEN NoHash
        ELSE OrElse(d.meta[id].full_hash, OrElse(d.meta[id].fast_hash, d.meta[id].hash))

\* process_file: scan of the one path, run_extractor, and, unless the stored
\* hash is what it was, the embedder (with a remote store) and the
\* classifier for the file.
process_file(f, d, pts, path, cfg, remote) ==
    LET changed(d2, id, embedded) ==
            IF cfg.qdrant
            THEN IF ~embedded.ok THEN [ok |-> FALSE, db |-> d2, points |-> embedded.points]
                 ELSE [ok |-> TRUE, db |-> run_classifier_for_files(d2, <<id>>),
                       points |-> embedded.points]
            ELSE [ok |-> TRUE, db |-> run_classifier_for_files(d2, <<id>>), points |-> pts]
        after(hash_before, extracted, d2, id) ==
            IF ~extracted.ok THEN [ok |-> FALSE, db |-> d2, points |-> pts]
            ELSE IF id = 0 THEN [ok |-> TRUE, db |-> d2, points |-> pts]
            ELSE IF hash_before # NoHash /\ hash_before = StoredHash(d2, path)
            THEN [ok |-> TRUE, db |-> d2, points |-> pts]
            ELSE changed(d2, id,
                         run_embedder_for_files(d2, pts, cfg.batch_size, {id}, remote))
        scanned(extracted) ==
            after(StoredHash(d, path), extracted, extracted.db, FileId(extracted.db, path))
    IN  scanned(run_extractor(f, scan(f, d, {path}, cfg.hash_mode)))

\* The conditions of the filter that the watcher sends for the removed
\* files.
removed_filter(removed, removed_hashes, removed_file_hashes) ==
    <<[key |-> "path", any |-> removed]>>
    \o (IF removed_hashes # {} THEN <<[key |-> "hash", any |-> removed_hashes]>> ELSE <<>>)
    \o (IF removed_file_hashes # {}
        THEN <<[key |-> "file_hash", any |-> removed_file_hashes]>> ELSE <<>>)

\* The best-effort vector delete of a batch: delete_by_filter, then
\* delete_by_ids for the collected chunk hashes.
delete_removed_points(pts, acc, remote) ==
    IF ~remote.delete_ok THEN pts
    ELSE LET p1 == delete_by_filter(pts, removed_filter(acc.removed, acc.removed_hashes,
                                                        acc.removed_file_hashes))
         IN  IF acc.removed_point_ids # {} THEN delete_by_ids(p1, acc.removed_point_ids)
             ELSE p1

\* The body of `for path in &batch`.
RECURSIVE watch_paths_each(_, _, _, _, _)
watch_paths_each(f, acc, batch, cfg, remote) ==
    IF batch = <<>> THEN acc
    ELSE LET path == Head(batch)
             hs(h) == {h.chunk_hashes[i] : i \in 1..Len(h.chunk_hashes)}
             present(r) ==
                 [acc EXCEPT !.db = IF r.ok THEN mark_dirty(r.db, path, "watch") ELSE r.db,
                             !.points = r.points]
             removed(h) ==
                 [acc EXCEPT !.db = mark_dirty(purge_file(@, path), path, "watch"),
                             !.removed = @ \cup {path},
                             !.removed_hashes = @ \cup hs(h),
                             !.removed_point_ids = @ \cup hs(h),
                             !.removed_file_hashes =
                                 IF h.file_hash # NoHash THEN @ \cup {h.file_hash} ELSE @]
         IN  IF Exists(f, path)
             THEN watch_paths_each(f,
                      present(process_file(f, acc.db, acc.points, path, cfg, remote)),
                      Tail(batch), cfg, remote)
             ELSE watch_paths_each(f, removed(collect_hashes(acc.db, path)),
                                   Tail(batch), cfg, remote)

\* One flush of watch_paths: the batch is processed path by path, the
\* removed files are deleted from the keyword index and, with a remote
\* store and immediate_vector_delete, from the vector store; the keyword
\* index is refreshed and a watch_purge audit row is written.
watch_batch(f, d, pts, kw, batch, cfg, immediate_vector_delete, remote) ==
    LET kw1(acc) == IF acc.removed # {} THEN delete_docs(kw, acc.removed) ELSE kw
        pts1(acc) == IF acc.removed # {} /\ cfg.qdrant /\ immediate_vector_delete
                     THEN delete_removed_points(acc.points, acc, remote)
                     ELSE acc.points
        flushed(acc, refreshed) ==
            [db |-> IF acc.removed # {}
                    THEN insert_audit(refreshed.db, "NULL", "watch_purge",
                                      [paths |-> acc.removed, hashes |-> acc.removed_hashes,
                                       vector_ids |-> acc.removed_point_ids])
                    ELSE refreshed.db,
             points |-> pts1(acc), kw |-> refreshed.kw]
        processed(acc) == flushed(acc, refresh_keyword_index_if_dirty(acc.db, kw1(acc)))
    IN  processed(watch_paths_each(f,
                      [db |-> d, points |-> pts, removed |-> {}, removed_hashes |-> {},
                       removed_file_hashes |-> {}, removed_point_ids |-> {}],
                      batch, cfg, remote))

-----------------------------------------------------------------------------
(* crates/core/src/indexer.rs and crates/core/src/pipeline.rs *)

\* Indexer::upsert: INSERT ... ON CONFLICT(path) DO UPDATE of size, mtime,
\* hash, mime and ext, whatever the stored values.
indexer_upsert(d, record) ==
    LET id == FileId(d, record.path)
        nid == d.seq.files + 1
        row == [size |-> record.size, mtime |-> record.mtime, hash |-> record.hash,
                fast_hash |-> NoHash, full_hash |-> NoHash, mime |-> record.mime,
                ext |-> record.ext, status |-> "seen"]
    IN  IF id = 0
        THEN [d EXCEPT !.files = (nid :> record.path) @@ @, !.meta = (nid :> row) @@ @,
                       !.seq.files = nid]
        ELSE [d EXCEPT !.meta[id].size = record.size, !.meta[id].mtime = record.mtime,
                       !.meta[id].hash = record.hash, !.meta[id].mime = record.mime,
                       !.meta[id].ext = record.ext]

\* Indexer::detect_duplicate_for_hash: SELECT path FROM files WHERE hash = ?
\* AND path != ? LIMIT 1 (the first row in rowid order; NoPath for None)
detect_duplicate_for_hash(d, current_path, hash) ==
    LET same == {i \in DOMAIN d.files : d.meta[i].hash = hash /\ d.files[i] # current_path}
    IN  IF same = {} THEN NoPath
        ELSE d.files[CHOOSE i \in same : \A j \in same : i <= j]

\* Indexer::insert_action: the row is planned; without a file row of the
\* path the NOT NULL file_id rejects it.
insert_action(d, file_path, kind, payload) ==
    LET id == FileId(d, file_path)
        aid == d.seq.actions + 1
    IN  IF id = 0 THEN d
        ELSE [d EXCEPT !.actions = (aid :> Planned(id, kind, payload)) @@ @,
                       !.seq.actions = aid]

\* Indexer::insert_metadata of one key: upsert on (file_id, key)
insert_metadata(d, file_path, key, value) ==
    LET id == FileId(d, file_path)
    IN  IF id = 0 THEN d
        ELSE [d EXCEPT !.metadata = {m \in @ : ~(m.file_id = id /\ m.key = key)}
                           \cup {[file_id |-> id, key |-> key, value |-> value,
                                  source |-> "extract"]}]

\* Indexer::insert_chunk
insert_chunk(d, file_path, chunk) ==
    LET id == FileId(d, file_path)
        cid == d.seq.chunks + 1
    IN  IF id = 0 THEN d
        ELSE [d EXCEPT !.chunks = @ \cup {[id |-> cid, file_id |-> id, hash |-> chunk.hash,
                                           start |-> chunk.start, end |-> chunk.end,
                                           text_preview |-> chunk.text_preview]},
                       !.seq.chunks = cid]

\* The duplicate handling of the pipeline for one item: when another file
\* row has the hash, a duplicate_of metadata row and the dedupe and
\* merge_duplicate actions are inserted for the item.
plan_duplicate(d, item) ==
    LET dupe == detect_duplicate_for_hash(d, item.path, item.hash)
        d1 == insert_metadata(d, item.path, "duplicate_of", dupe)
        d2 == insert_action(d1, item.path, "dedupe", [duplicate_of |-> dupe])
    IN  IF item.hash = NoHash \/ dupe = NoPath THEN d
        ELSE insert_action(d2, item.path, "merge_duplicate",
                           [duplicate_of |-> dupe, strategy |-> "trash",
                            rule |-> "dedupe-detected"])

\* The loop over extracted.chunks of the pipeline: each chunk is inserted
\* under the hash of its text and, when embeddings are wanted and the
\* provider answers, upserted as a point of that id.
RECURSIVE pipeline_chunks(_, _, _, _, _, _)
pipeline_chunks(acc, item, mime, cs, do_embeddings, remote) ==
    IF cs = <<>> THEN acc
    ELSE LET c == Head(cs)
             h == Blake3(c.text)
             payload == [path |-> item.path, mime |-> mime, hash |-> h,
                         mtime |-> item.mtime]
                        @@ (IF item.hash # NoHash THEN [file_hash |-> item.hash] ELSE <<>>)
             d1 == insert_chunk(acc.db, item.path,
                                [hash |-> h, start |-> c.start, end |-> c.end,
                                 text_preview |-> c.text])
         IN  pipeline_chunks(
                 [acc EXCEPT !.db = d1,
                             !.points = IF do_embeddings /\ remote.embed_ok /\ remote.upsert_ok
                                        THEN qdrant_upsert(@, (h :> payload)) ELSE @,
                             !.embedded_chunks =
                                 IF do_embeddings /\ remote.embed_ok /\ remote.upsert_ok
                                 THEN @ + 1 ELSE @],
                 item, mime, Tail(cs), do_embeddings, remote)

\* The body of `for item in &scan_result.discovered` of
\* run_with_mode_summary, for the modes scan and classify.
RECURSIVE pipeline_items(_, _, _, _, _)
pipeline_items(f, acc, items, do_embeddings, remote) ==
    IF items = <<>> THEN acc
    ELSE LET item == Head(items)
             extracted == extract(f, item.path)
             d1 == indexer_upsert(acc.db,
                       [path |-> item.path, size |-> item.size, mtime |-> item.mtime,
                        hash |-> item.hash, mime |-> extracted.mime,
                        ext |-> Extension(item.path)])
             a1 == pipeline_chunks([acc EXCEPT !.db = plan_duplicate(d1, item)],
                                   item, extracted.mime, extracted.chunks,
                                   do_embeddings, remote)
         IN  pipeline_items(f, [a1 EXCEPT !.processed_files = @ + 1], Tail(items),
                            do_embeddings, remote)

\* run_with_mode_summary(config, mode) for mode scan or classify; the
\* vector store is the remote one or the no-op one.
run_with_mode_summary(f, d, pts, roots, cfg, mode, remote) ==
    LET acc == pipeline_items(f, [db |-> d, points |-> pts, processed_files |-> 0,
                                  embedded_chunks |-> 0],
                              ScannedItems(f, roots, cfg.hash_mode),
                              mode = "classify", remote)
    IN  IF cfg.qdrant THEN acc ELSE [acc EXCEPT !.points = pts]

-----------------------------------------------------------------------------
(* crates/core/src/rules.rs and crates/core/src/suggester.rs *)

\* rules::matches
RECURSIVE matches(_, _)
matches(condition, ctx) ==
    CASE condition.type = "path_prefix" -> StartsWith(ctx.path, condition.prefix)
      [] condition.type = "mime" -> ctx.mime # "NULL" /\ ctx.mime = condition.mime
      [] condition.type = "extension" -> ctx.ext # <<>> /\ ctx.ext = condition.ext
      [] condition.type = "tag" -> condition.tag \in ctx.tags
      [] condition.type = "and" ->
            \A i \in 1..Len(condition.all) : matches(condition.all[i], ctx)
      [] condition.type = "or" ->
            \E i \in 1..Len(condition.any) : matches(condition.any[i], ctx)

\* sort_by_key(|r| r.priority), a stable sort of the rules at the indices ids
RECURSIVE sort_by_priority(_, _)
sort_by_priority(rules, ids) ==
    IF ids = {} THEN <<>>
    ELSE LET first == CHOOSE i \in ids :
                         \A j \in ids : \/ rules[i].priority < rules[j].priority
                                        \/ rules[i].priority = rules[j].priority /\ i <= j
         IN  <<rules[first]>> \o sort_by_priority(rules, ids \ {first})

\* rules::evaluate
evaluate(rules, ctx) ==
    sort_by_priority(rules, {i \in 1..Len(rules) :
                                rules[i].enabled /\ matches(rules[i].condition, ctx)})

\* The SELECT of run_suggester without its NOT IN clause.
files_to_process_all(d) == Ascending(DOMAIN d.files)

\* The SELECT of run_suggester: the files that have no planned move or
\* rename action.
files_to_process(d) ==
    Ascending(DOMAIN d.files \
              {d.actions[a].file_id : a \in {x \in DOMAIN d.actions :
                  /\ d.actions[x].status = "planned"
                  /\ d.actions[x].kind \in {"move", "rename"}}})

\* The match on rules::Action of run_suggester
suggested(action) ==
    CASE action.type = "move" -> [kind |-> "move", payload |-> [to |-> action.to]]
      [] action.type = "tag" -> [kind |-> "tag", payload |-> [tag |-> action.tag]]
      [] action.type = "rename" -> [kind |-> "rename", payload |-> [to |-> action.template]]

\* INSERT INTO actions (file_id, kind, payload_json, status) for each action
\* of one matched rule
RECURSIVE insert_suggestions(_, _, _)
insert_suggestions(d, file_id, acts) ==
    IF acts = <<>> THEN d
    ELSE LET aid == d.seq.actions + 1
             s == suggested(Head(acts))
         IN  insert_suggestions(
                 [d EXCEPT !.actions = (aid :> Planned(file_id, s.kind, s.payload)) @@ @,
                           !.seq.actions = aid],
                 file_id, Tail(acts))

\* for matched_rule in rules::evaluate(&rules, &ctx)
RECURSIVE suggest_rules(_, _, _)
suggest_rules(d, file_id, matched) ==
    IF matched = <<>> THEN d
    ELSE suggest_rules(insert_suggestions(d, file_id, Head(matched).actions),
                       file_id, Tail(matched))

\* for file in files_to_process: the context is built from the row the
\* SELECT returned.
RECURSIVE suggest_files(_, _, _, _)
suggest_files(d, rows, rules, queue) ==
    IF queue = <<>> THEN d
    ELSE LET id == Head(queue)
             ctx == [path |-> rows.files[id], mime |-> rows.meta[id].mime,
                     ext |-> rows.meta[id].ext,
                     tags |-> {ft[2] : ft \in {x \in rows.file_tags : x[1] = id}}]
         IN  suggest_files(suggest_rules(d, id, evaluate(rules, ctx)), rows, rules,
                           Tail(queue))

\* run_suggester: the rules are the enabled rows of the rules table.
run_suggester(d, db_rules) ==
    suggest_files(d, d, SelectSeq(db_rules, LAMBDA r : r.enabled), files_to_process(d))

-----------------------------------------------------------------------------
(* The indexing handlers as actions: a tree under /w that the user edits,   *)
(* scans of it, runs of the extractor and of the embedder, and flushes of   *)
(* the watcher.  Each handler runs to its end in one step.                  *)

\* Number of scans, extractor runs and embedder runs, of watcher flushes,
\* and of edits of the tree in one behaviour.
MaxOps == 5
MaxFlushes == 3
MaxEdits == 2
MaxRuns == 3
MaxMarks == 2

WRoot == <<"/", "w">>

\* "a.b" has the chunks "a." and "b"; "a.c" shares the first; "a." is the
\* first alone.
TextAB == <<"a", ".", "b">>
TextAC == <<"a", ".", "c">>
TextA == <<"a", ".">>
TextLong == <<"a", ".", "b", "c">>
Texts == {TextAB, TextAC, TextA}

NoLast == [op |-> "none"]

\* The tables of an empty database and the stores before anything ran.
IndexInitWith(tree, cfg, ivd) ==
    /\ fs = tree
    /\ files = <<>>
    /\ file_meta = <<>>
    /\ chunks = {}
    /\ metadata = {}
    /\ actions = <<>>
    /\ file_tags = {}
    /\ tags = {}
    /\ dirty = <<>>
    /\ audit = <<>>
    /\ points = <<>>
    /\ kwindex = [built |-> FALSE, docs |-> {}]
    /\ safety = [allow_paths |-> <<>>, deny_paths |-> <<>>, trash_dir |-> NoPath,
                 copy_then_delete |-> FALSE, immediate_vector_delete |-> ivd]
    /\ run = Idle
    /\ applied = <<>>
    /\ calls = 0
    /\ ix = [seq |-> [files |-> 0, chunks |-> 0, actions |-> 0], ops |-> 0, edits |-> 0,
             runs |-> 0, cfg |-> cfg, last |-> NoLast]

\* What the handlers of this side never touch.
IndexFrame == UNCHANGED <<safety, run, applied, calls>>

Step(last) == [ix EXCEPT !.ops = @ + 1, !.last = last]

\* The user writes a file of the tree: new bytes, a touch, or both.
Edit(path, bytes, bump) ==
    /\ ix.edits < MaxEdits
    /\ Exists(fs, path)
    /\ bump = 1 \/ bytes # fs[path].bytes
    /\ fs' = Write(fs, path, [bytes |-> bytes, mtime |-> fs[path].mtime + bump])
    /\ ix' = [ix EXCEPT !.edits = @ + 1, !.last = [op |-> "edit", path |-> path]]
    /\ UNCHANGED <<files, file_meta, chunks, metadata, actions, file_tags, tags, dirty,
                   audit, points, kwindex>>
    /\ IndexFrame

\* The user removes a file of the tree.
Unlink(path) ==
    /\ ix.edits < MaxEdits
    /\ Exists(fs, path)
    /\ fs' = Remove(fs, path)
    /\ ix' = [ix EXCEPT !.edits = @ + 1, !.last = [op |-> "unlink", path |-> path]]
    /\ UNCHANGED <<files, file_meta, chunks, metadata, actions, file_tags, tags, dirty,
                   audit, points, kwindex>>
    /\ IndexFrame

\* scanner::scan of the tree
Scan ==
    /\ ix.ops < MaxOps
    /\ LET d == scan(fs, DB, {WRoot}, ix.cfg.hash_mode)
       IN  /\ StoreDB(d)
           /\ ix' = [Step([op |-> "scan",
                            changed |-> {files[i] : i \in {j \in DOMAIN files :
                                                             d.meta[j] # file_meta[j]}}])
                        EXCEPT !.seq = d.seq]
    /\ UNCHANGED <<fs, points, kwindex>>
    /\ IndexFrame

\* extractor::run_extractor
RunExtractor ==
    /\ ix.ops < MaxOps
    /\ DOMAIN dirty # {}
    /\ LET r == run_extractor(fs, DB)
       IN  /\ StoreDB(r.db)
           /\ ix' = [Step([op |-> "extract", ok |-> r.ok,
                            before |-> [dirty |-> dirty, chunks |-> chunks,
                                        meta |-> file_meta]])
                        EXCEPT !.seq = r.db.seq]
    /\ UNCHANGED <<fs, points, kwindex>>
    /\ IndexFrame

\* embeddings::run_embedder (every file)
RunEmbedder(remote) ==
    /\ ix.ops < MaxOps
    /\ ix.cfg.qdrant
    /\ chunks # {}
    /\ LET r == run_embedder_for_files(DB, points, ix.cfg.batch_size, {}, remote)
       IN  /\ points' = r.points
           /\ ix' = Step([op |-> "embed", ok |-> r.ok, embedded |-> r.embedded,
                          provider_calls |-> r.provider_calls, upserted |-> r.upserted,
                          remote |-> remote])
    /\ UNCHANGED <<fs, files, file_meta, chunks, metadata, actions, file_tags, tags, dirty,
                   audit, kwindex>>
    /\ IndexFrame

\* pipeline::run_with_mode_summary, the scan and classify commands
PipelineRun(mode, remote) ==
    /\ ix.runs < MaxRuns
    /\ LET r == run_with_mode_summary(fs, DB, points, {WRoot}, ix.cfg, mode, remote)
       IN  /\ StoreDB(r.db)
           /\ points' = r.points
           /\ ix' = [ix EXCEPT !.runs = @ + 1, !.seq = r.db.seq,
                               !.last = [op |-> "pipeline", mode |-> mode,
                                         processed_files |-> r.processed_files]]
    /\ UNCHANGED <<fs, kwindex>>
    /\ IndexFrame

PipelineTrees ==
    {(WA :> [bytes |-> TextAB, mtime |-> 0]) @@ (WB :> [bytes |-> b, mtime |-> m]) :
        b \in {TextAB, TextA}, m \in 0..1}

PipelineConfigs ==
    {[hash_mode |-> h, qdrant |-> q, batch_size |-> 1] : h \in HashModes, q \in BOOLEAN}

PipelineInit ==
    \E tree \in PipelineTrees, cfg \in PipelineConfigs : IndexInitWith(tree, cfg, FALSE)

PipelineNext ==
    \/ \E path \in {WA, WB}, bytes \in Texts, bump \in 0..1 : Edit(path, bytes, bump)
    \/ \E path \in {WA, WB} : Unlink(path)
    \/ \E mode \in {"scan", "classify"}, remote \in {AllUp, [AllUp EXCEPT !.embed_ok = FALSE]} :
          PipelineRun(mode, remote)

\* The tree and runs of the pipeline over it.
PipelineSpec == PipelineInit /\ [][PipelineNext]_vars

\* The tables of an empty database.
EmptyDB ==
    [files |-> <<>>, meta |-> <<>>, chunks |-> {}, metadata |-> {}, actions |-> <<>>,
     file_tags |-> {}, tags |-> {}, dirty |-> <<>>, audit |-> <<>>,
     seq |-> [files |-> 0, chunks |-> 0, actions |-> 0]]

\* suggester::run_suggester
RunSuggester ==
    /\ ix.runs < MaxRuns
    /\ LET d == run_suggester(DB, ix.cfg.rules)
       IN  /\ StoreDB(d)
           /\ ix' = [ix EXCEPT !.runs = @ + 1, !.seq = d.seq,
                               !.last = [op |-> "suggest", before |-> actions]]
           /\ applied' = [a \in DOMAIN d.actions |->
                             IF a \in DOMAIN applied THEN applied[a] ELSE "never"]
    /\ UNCHANGED <<fs, points, kwindex, safety, run, calls>>

RuleMoveMd ==
    [name |-> "docs", priority |-> 2, enabled |-> TRUE,
     condition |-> [type |-> "extension", ext |-> <<"m", "d">>],
     actions |-> <<[type |-> "move", to |-> Dst]>>]

RuleTagText ==
    [name |-> "text", priority |-> 1, enabled |-> TRUE,
     condition |-> [type |-> "mime", mime |-> "text/plain"],
     actions |-> <<[type |-> "tag", tag |-> "T"]>>]

RuleRenameTagged ==
    [name |-> "tagged", priority |-> 1, enabled |-> TRUE,
     condition |-> [type |-> "and",
                    all |-> <<[type |-> "path_prefix", prefix |-> WRoot],
                              [type |-> "or", any |-> <<[type |-> "tag", tag |-> "T"],
                                                        [type |-> "mime",
                                                         mime |-> "application/pdf"]>>]>>],
     actions |-> <<[type |-> "rename", template |-> DstNoExt],
                   [type |-> "tag", tag |-> "R"]>>]

RuleOff == [RuleMoveMd EXCEPT !.name = "off", !.enabled = FALSE]

RuleSets ==
    {<<RuleTagText>>, <<RuleMoveMd, RuleTagText>>, <<RuleOff, RuleRenameTagged, RuleTagText>>,
     <<RuleRenameTagged, RuleMoveMd>>}

\* A database after a scan and an extraction of the tree with a text file
\* and a PDF, the rules table, and no action planned yet.
SuggestInit ==
    \E rules \in RuleSets, deny \in {<<>>, <<WA>>} :
        LET tree == (WA :> [bytes |-> TextAB, mtime |-> 0])
                    @@ (WC :> [bytes |-> TextA, mtime |-> 0])
            d == run_extractor(tree, scan(tree, EmptyDB, {WRoot}, "none")).db
        IN  /\ fs = tree
            /\ files = d.files
            /\ file_meta = d.meta
            /\ chunks = d.chunks
            /\ metadata = d.metadata
            /\ actions = d.actions
            /\ file_tags = d.file_tags
            /\ tags = d.tags
            /\ dirty = d.dirty
            /\ audit = d.audit
            /\ points = <<>>
            /\ kwindex = [built |-> FALSE, docs |-> {}]
            /\ safety = [allow_paths |-> <<>>, deny_paths |-> deny, trash_dir |-> TrashDir,
                         copy_then_delete |-> FALSE, immediate_vector_delete |-> FALSE]
            /\ run = Idle
            /\ applied = <<>>
            /\ calls = 0
            /\ ix = [seq |-> d.seq, ops |-> 0, edits |-> 0, runs |-> 0,
                     cfg |-> [hash_mode |-> "none", qdrant |-> FALSE, batch_size |-> 1,
                              rules |-> rules],
                     last |-> NoLast]

SuggestNext ==
    \/ RunSuggester
    \/ \E filter \in Filters, conflict \in {"rename", "skip"} : ApplyBegin(FALSE, filter, conflict)
    \/ ApplyRow
    \/ ApplyReturn

\* The suggester over an indexed tree, with apply consuming what it plans.
SuggestSpec == SuggestInit /\ [][SuggestNext]_vars

\* The dirty queue with its producers and its two consumers, statement by
\* statement.  ix.ext and ix.ref are the positions of run_extractor and of
\* refresh_keyword_index_if_dirty; ix.pending records, for each entry put
\* in the queue, which consumer has processed it since.
Unconsumed == [ext |-> FALSE, ref |-> FALSE]

Put(pending, paths) == [q \in DOMAIN pending \cup paths |->
                           IF q \in paths THEN Unconsumed ELSE pending[q]]

Consumed(pending, paths, who) ==
    [q \in DOMAIN pending |->
        IF q \in paths
        THEN IF who = "ext" THEN [pending[q] EXCEPT !.ext = TRUE]
             ELSE [pending[q] EXCEPT !.ref = TRUE]
        ELSE pending[q]]

DirtyFrame == UNCHANGED <<safety, run, applied, calls, points>>

\* The INSERT OR REPLACE INTO dirty of apply, undo and the watcher
DirtyMark(path, reason) ==
    /\ ix.ops < MaxMarks
    /\ dirty' = Write(dirty, path, reason)
    /\ ix' = [ix EXCEPT !.ops = @ + 1, !.pending = Put(@, {path})]
    /\ UNCHANGED <<fs, files, file_meta, chunks, metadata, actions, file_tags, tags, audit,
                   kwindex>>
    /\ DirtyFrame

\* The user rewrites a file and the scanner records it.
DirtyRescan(path, bytes) ==
    /\ ix.edits < MaxEdits
    /\ Exists(fs, path)
    /\ bytes # fs[path].bytes
    /\ fs' = Write(fs, path, [bytes |-> bytes, mtime |-> fs[path].mtime + 1])
    /\ LET d == scan(fs', DB, {WRoot}, ix.cfg.hash_mode)
       IN  /\ StoreDB(d)
           /\ ix' = [ix EXCEPT !.edits = @ + 1, !.seq = d.seq,
                               !.pending = Put(@, {files[i] : i \in {j \in DOMAIN files :
                                                       d.meta[j] # file_meta[j]}})]
    /\ UNCHANGED kwindex
    /\ DirtyFrame

\* run_extractor: SELECT f.* FROM files f JOIN dirty d
ExtSelect ==
    /\ ix.ext.pc = "idle"
    /\ DOMAIN dirty # {}
    /\ ix' = [ix EXCEPT !.ext = [pc |-> "loop", rows |-> DB, queue |-> DirtyFiles(DB)]]
    /\ UNCHANGED <<fs, files, file_meta, chunks, metadata, actions, file_tags, tags, dirty,
                   audit, kwindex>>
    /\ DirtyFrame

\* run_extractor: one iteration of the loop
ExtFile ==
    /\ ix.ext.pc = "loop"
    /\ ix.ext.queue # <<>>
    /\ LET id == Head(ix.ext.queue)
           r == extract_one(fs, DB, ix.ext.rows, id)
       IN  /\ StoreDB(r.db)
           /\ ix' = [ix EXCEPT !.seq = r.db.seq,
                               !.ext = IF r.ok THEN [@ EXCEPT !.queue = Tail(@)]
                                       ELSE [pc |-> "idle", rows |-> EmptyDB, queue |-> <<>>],
                               !.pending = IF r.ok THEN Consumed(@, {ix.ext.rows.files[id]}, "ext")
                                           ELSE @]
    /\ UNCHANGED <<fs, kwindex>>
    /\ DirtyFrame

\* run_extractor: Ok(())
ExtReturn ==
    /\ ix.ext.pc = "loop"
    /\ ix.ext.queue = <<>>
    /\ ix' = [ix EXCEPT !.ext = [pc |-> "idle", rows |-> EmptyDB, queue |-> <<>>]]
    /\ UNCHANGED <<fs, files, file_meta, chunks, metadata, actions, file_tags, tags, dirty,
                   audit, kwindex>>
    /\ DirtyFrame

\* refresh_keyword_index_if_dirty: SELECT path FROM dirty
RefSelect ==
    /\ ix.ref.pc = "idle"
    /\ DOMAIN dirty # {}
    /\ ix' = [ix EXCEPT !.ref = [pc |-> "selected", paths |-> DOMAIN dirty]]
    /\ UNCHANGED <<fs, files, file_meta, chunks, metadata, actions, file_tags, tags, dirty,
                   audit, kwindex>>
    /\ DirtyFrame

\* refresh_keyword_index_if_dirty: the documents of the paths are written
RefIndex ==
    /\ ix.ref.pc = "selected"
    /\ kwindex' = refresh_index(DB, kwindex, ix.ref.paths)
    /\ ix' = [ix EXCEPT !.ref.pc = "indexed", !.pending = Consumed(@, ix.ref.paths, "ref")]
    /\ UNCHANGED <<fs, files, file_meta, chunks, metadata, actions, file_tags, tags, dirty,
                   audit>>
    /\ DirtyFrame

\* refresh_keyword_index_if_dirty: DELETE FROM dirty WHERE path IN (paths)
RefClear ==
    /\ ix.ref.pc = "indexed"
    /\ dirty' = clear_dirty_paths(DB, ix.ref.paths).dirty
    /\ ix' = [ix EXCEPT !.ref = [pc |-> "idle", paths |-> {}]]
    /\ UNCHANGED <<fs, files, file_meta, chunks, metadata, actions, file_tags, tags, audit,
                   kwindex>>
    /\ DirtyFrame

\* A scanned tree: every path is in the queue with reason rescan.
DirtyInit ==
    \E mode \in HashModes :
        LET tree == (WA :> [bytes |-> TextAB, mtime |-> 0])
                    @@ (WB :> [bytes |-> TextA, mtime |-> 0])
            d == scan(tree, EmptyDB, {WRoot}, mode)
        IN  /\ fs = tree
            /\ files = d.files
            /\ file_meta = d.meta
            /\ chunks = d.chunks
            /\ metadata = d.metadata
            /\ actions = d.actions
            /\ file_tags = d.file_tags
            /\ tags = d.tags
            /\ dirty = d.dirty
            /\ audit = d.audit
            /\ points = <<>>
            /\ kwindex = [built |-> FALSE, docs |-> {}]
            /\ safety = [allow_paths |-> <<>>, deny_paths |-> <<>>, trash_dir |-> NoPath,
                         copy_then_delete |-> FALSE, immediate_vector_delete |-> FALSE]
            /\ run = Idle
            /\ applied = <<>>
            /\ calls = 0
            /\ ix = [seq |-> d.seq, ops |-> 0, edits |-> 0, runs |-> 0,
                     cfg |-> [hash_mode |-> mode, qdrant |-> FALSE, batch_size |-> 1],
                     last |-> NoLast,
                     ext |-> [pc |-> "idle", rows |-> EmptyDB, queue |-> <<>>],
                     ref |-> [pc |-> "idle", paths |-> {}],
                     pending |-> Put(<<>>, DOMAIN d.dirty)]

DirtyNext ==
    \/ \E reason \in {"apply", "undo"} : DirtyMark(WA, reason)
    \/ DirtyMark(WB, "watch")
    \/ DirtyRescan(WA, TextAC)
    \/ ExtSelect
    \/ ExtFile
    \/ ExtReturn
    \/ RefSelect
    \/ RefIndex
    \/ RefClear

DirtySpec == DirtyInit /\ [][DirtyNext]_vars

ExtractTrees ==
    {(WA :> [bytes |-> a, mtime |-> 0]) @@ (WB :> [bytes |-> TextA, mtime |-> 0]) :
        a \in {TextAB, TextLong}}

ExtractConfigs ==
    {[hash_mode |-> h, qdrant |-> TRUE, batch_size |-> n] : h \in HashModes, n \in {1, 2}}

ExtractInit ==
    \E tree \in ExtractTrees, cfg \in ExtractConfigs : IndexInitWith(tree, cfg, FALSE)

ExtractNext ==
    \/ \E bytes \in Texts \cup {TextLong}, bump \in 0..1 : Edit(WA, bytes, bump)
    \/ Unlink(WB)
    \/ Scan
    \/ RunExtractor
    \/ \E remote \in Remote \ {[AllUp EXCEPT !.delete_ok = FALSE]} : RunEmbedder(remote)

\* The tree, scans of it, the extractor and the embedder.
ExtractSpec == ExtractInit /\ [][ExtractNext]_vars

\* One flush of the watcher, for the batch drained from pending.
WatchBatch(batch, remote) ==
    /\ ix.ops < MaxFlushes
    /\ LET r == watch_batch(fs, DB, points, kwindex, batch, ix.cfg,
                            safety.immediate_vector_delete, remote)
       IN  /\ StoreDB(r.db)
           /\ points' = r.points
           /\ kwindex' = r.kw
           /\ ix' = [Step([op |-> "watch", batch |-> batch, remote |-> remote,
                            before |-> [files |-> files,
                                        chunks |-> {c.file_id : c \in chunks},
                                        metadata |-> {m.file_id : m \in metadata},
                                        file_tags |-> {ft[1] : ft \in file_tags},
                                        actions |-> {actions[a].file_id : a \in DOMAIN actions}]])
                        EXCEPT !.seq = r.db.seq]
    /\ UNCHANGED fs
    /\ IndexFrame

Batches == {<<WA>>, <<WB>>, <<WA, WB>>}

\* Two files of the same content.
WatchTrees ==
    {(WA :> [bytes |-> TextAB, mtime |-> 0]) @@ (WB :> [bytes |-> TextAB, mtime |-> 0])}

WatchConfigs ==
    {[hash_mode |-> h, qdrant |-> q, batch_size |-> 1] : h \in HashModes, q \in BOOLEAN}

\* immediate_vector_delete is read only with a remote store.
WatchInit ==
    \E tree \in WatchTrees, cfg \in WatchConfigs, ivd \in BOOLEAN :
        /\ ivd => cfg.qdrant
        /\ IndexInitWith(tree, cfg, ivd)

\* The one run of the pipeline (the scan command with embeddings) that the
\* watcher may be started before or after.
PipelineOnce == ix.runs = 0 /\ PipelineRun("classify", AllUp)

WatchNext ==
    \/ \E bytes \in Texts, bump \in 0..1 : Edit(WA, bytes, bump)
    \/ \E path \in {WA, WB} : Unlink(path)
    \/ \E batch \in Batches : WatchBatch(batch, AllUp)
    \/ PipelineOnce

\* The tree and the watcher.
WatchSpec == WatchInit /\ [][WatchNext]_vars

\* run_classifier over the whole database.  In this specification the rows
\* of file_tags carry the confidence column: <<file_id, tag, confidence>>.
RunClassifier(order) ==
    /\ ix.runs < MaxRuns
    /\ LET stored(d) ==
               /\ StoreDB(d)
               /\ ix' = [ix EXCEPT !.runs = @ + 1, !.seq = d.seq,
                                   !.last = [op |-> "classify", before |-> file_tags]]
       IN  stored(run_classifier(DB, points, order))
    /\ UNCHANGED <<fs, points, kwindex>>
    /\ IndexFrame

\* A spreadsheet under a name that no heuristic knows.
WX == <<"/", "w", "/", "x", ".", "b">>

\* The chunks that the office parser stored for the spreadsheet.
SheetChunks(id, n, from) ==
    {[id |-> from + i, file_id |-> id, hash |-> <<"#", "x", Digit(i)>>, start |-> i - 1,
      end |-> i, text_preview |-> <<"x">>] : i \in 1..n}

\* The rows of the spreadsheet next to those of database d: sniffed as
\* application/vnd.ms-excel and read by the office parser
\* (extractor.rs:217), with n chunks.
WithSheet(d, id, n) ==
    [d EXCEPT !.files = (id :> WX) @@ @,
              !.meta = (id :> [size |-> 1, mtime |-> 0, hash |-> NoHash,
                               fast_hash |-> NoHash, full_hash |-> NoHash,
                               mime |-> "application/vnd.ms-excel", ext |-> <<"b">>,
                               status |-> "new"]) @@ @,
              !.chunks = @ \cup SheetChunks(id, n, d.seq.chunks),
              !.seq = [@ EXCEPT !.files = id, !.chunks = @ + n]]

\* The database after a scan and an extraction of two text files and of the
\* spreadsheet.
ClassifyDB(tree, n) ==
    LET with(d) == WithSheet(d, d.seq.files + 1, n)
    IN  with(run_extractor(tree, scan(tree, EmptyDB, {WRoot}, "none")).db)

\* The tags that apply stored before the classifier ran.
AppliedTags == SUBSET {<<1, "T", 100>>, <<2, "T", 100>>}

\* Database d over the tree, the files of emb embedded, some tagged by apply.
ClassifyInitWith(tree, d, emb, applied_tags) ==
    /\ fs = tree @@ (WX :> [bytes |-> <<"x">>, mtime |-> 0])
    /\ files = d.files
    /\ file_meta = d.meta
    /\ chunks = d.chunks
    /\ metadata = d.metadata
    /\ actions = d.actions
    /\ file_tags = applied_tags
    /\ tags = {r[2] : r \in applied_tags}
    /\ dirty = d.dirty
    /\ audit = d.audit
    /\ points = IF emb = {} THEN <<>>
                ELSE run_embedder_for_files(d, <<>>, 1, emb, AllUp).points
    /\ kwindex = [built |-> FALSE, docs |-> {}]
    /\ safety = [allow_paths |-> <<>>, deny_paths |-> <<>>, trash_dir |-> NoPath,
                 copy_then_delete |-> FALSE, immediate_vector_delete |-> FALSE]
    /\ run = Idle
    /\ applied = <<>>
    /\ calls = 0
    /\ ix = [seq |-> d.seq, ops |-> 0, edits |-> 0, runs |-> 0,
             cfg |-> [hash_mode |-> "none", qdrant |-> TRUE, batch_size |-> 1],
             last |-> NoLast]

ClassifyInit ==
    \E b \in {TextAB, TextAC}, n \in 1..2, emb \in SUBSET {1, 2, 3}, applied_tags \in AppliedTags :
        LET over(tree) == ClassifyInitWith(tree, ClassifyDB(tree, n), emb, applied_tags)
        IN  over((WA :> [bytes |-> TextAB, mtime |-> 0]) @@ (WB :> [bytes |-> b, mtime |-> 0]))

ClassifyNext ==
    \/ \E order \in {<<"T", "text">>, <<"text", "T">>} : RunClassifier(order)
    \/ RunEmbedder(AllUp)

\* A database of embedded files and runs of the classifier over it.
ClassifySpec == ClassifyInit /\ [][ClassifyNext]_vars

\* Longest text and largest max_len that chunk_text is called with.
MaxTextLen == 4
MaxWindow == 3

\* A Vec of chunks longer than the text needs: a loop whose chunks are all
\* non-empty never gets there.
MaxChunks == MaxTextLen + 1

RECURSIVE TextsUpTo(_)
TextsUpTo(n) ==
    IF n = 0 THEN {<<>>}
    ELSE TextsUpTo(n - 1) \cup
         {Append(t, c) : t \in {u \in TextsUpTo(n - 1) : Len(u) = n - 1}, c \in {"a", " ", "."}}

\* A call chunk_text(text, max_len): chunks is empty and start is 0.
ChunkInit ==
    /\ \E text \in TextsUpTo(MaxTextLen), max_len \in 1..MaxWindow :
          ix = [op |-> "chunk_text", text |-> text, max_len |-> max_len, start |-> 0,
                chunks |-> <<>>, returned |-> FALSE]
    /\ fs = <<>>
    /\ files = <<>>
    /\ file_meta = <<>>
    /\ chunks = {}
    /\ metadata = {}
    /\ actions = <<>>
    /\ file_tags = {}
    /\ tags = {}
    /\ dirty = <<>>
    /\ audit = <<>>
    /\ points = <<>>
    /\ kwindex = [built |-> FALSE, docs |-> {}]
    /\ safety = [allow_paths |-> <<>>, deny_paths |-> <<>>, trash_dir |-> NoPath,
                 copy_then_delete |-> FALSE, immediate_vector_delete |-> FALSE]
    /\ run = Idle
    /\ applied = <<>>
    /\ calls = 0

ChunkFrame ==
    UNCHANGED <<fs, files, file_meta, chunks, metadata, actions, file_tags, tags, dirty,
                audit, points, kwindex, safety, run, applied, calls>>

\* One iteration of `while start < text.len()`: the chunk is pushed and
\* start moves to its end.
ChunkIter ==
    /\ ~ix.returned
    /\ ix.start < Len(ix.text)
    /\ Len(ix.chunks) < MaxChunks
    /\ LET end == chunk_end(ix.text, ix.max_len, ix.start)
       IN  ix' = [ix EXCEPT !.chunks = Append(@, [start |-> ix.start, end |-> end,
                                                  text |-> Slice(ix.text, ix.start, end)]),
                            !.start = end]
    /\ ChunkFrame

\* The loop is left and the chunks are returned.
ChunkReturn ==
    /\ ~ix.returned
    /\ ix.start >= Len(ix.text)
    /\ ix' = [ix EXCEPT !.returned = TRUE]
    /\ ChunkFrame

ChunkNext == ChunkIter \/ ChunkReturn

\* chunk_text as the steps of its loop; the thread that runs it keeps
\* running.
ChunkSpec == ChunkInit /\ [][ChunkNext]_vars /\ WF_vars(ChunkNext)

\* The shortest debounce of the watcher and the timeout of its recv, in ms.
MinDebounce == 200
RecvTimeout == 500

\* Notifications that the file system sends while the watcher runs.
MaxEvents == 3

\* last_flush.elapsed() is compared with the debounce only: the model stops
\* counting at a value that no debounce of the runs exceeds.
ElapsedCap == MinDebounce + RecvTimeout

Later(elapsed, dt) == Min(elapsed + dt, ElapsedCap)

\* Duration::from_millis(debounce_ms.max(200))
debounce(debounce_ms) == IF debounce_ms >= MinDebounce THEN debounce_ms ELSE MinDebounce

\* HashSet::insert: the set holds a value once.
insert_always(pending, path) == Append(pending, path)

insert(pending, path) ==
    IF \E i \in 1..Len(pending) : pending[i] = path THEN pending ELSE Append(pending, path)

RECURSIVE insert_all(_, _)
insert_all(pending, paths) ==
    IF paths = <<>> THEN pending ELSE insert_all(insert(pending, Head(paths)), Tail(paths))

\* A flush that forgets the lower bound of the debounce.
flush_due_no_minimum(pending, elapsed, debounce_ms) == pending # <<>> /\ elapsed >= debounce_ms

\* !pending.is_empty() && last_flush.elapsed() >= debounce
flush_due(pending, elapsed, debounce_ms) == pending # <<>> /\ elapsed >= debounce(debounce_ms)

\* What a notification carries: the paths of an event, or an error.
Events == {[ok |-> TRUE, paths |-> <<WA>>], [ok |-> TRUE, paths |-> <<WA, WB>>],
           [ok |-> TRUE, paths |-> <<WB, WB>>], [ok |-> FALSE, paths |-> <<WA>>]}

NoCount == [p \in {WA, WB} |-> 0]

\* watch_paths has reached its loop: the channel and pending are empty and
\* last_flush is now.
LoopInit ==
    /\ \E debounce_ms \in {0, MinDebounce + (MinDebounce \div 2), ElapsedCap} :
          ix = [op |-> "loop", pc |-> "recv", debounce_ms |-> debounce_ms, channel |-> <<>>,
                pending |-> <<>>, elapsed |-> 0, batch |-> <<>>, sent |-> 0,
                inserted |-> NoCount, handed |-> NoCount, processed |-> NoCount]
    /\ fs = <<>>
    /\ files = <<>>
    /\ file_meta = <<>>
    /\ chunks = {}
    /\ metadata = {}
    /\ actions = <<>>
    /\ file_tags = {}
    /\ tags = {}
    /\ dirty = <<>>
    /\ audit = <<>>
    /\ points = <<>>
    /\ kwindex = [built |-> FALSE, docs |-> {}]
    /\ safety = [allow_paths |-> <<>>, deny_paths |-> <<>>, trash_dir |-> NoPath,
                 copy_then_delete |-> FALSE, immediate_vector_delete |-> FALSE]
    /\ run = Idle
    /\ applied = <<>>
    /\ calls = 0

\* The notify thread sends an event into the channel.
LoopNotify(event) ==
    /\ ix.sent < MaxEvents
    /\ ix' = [ix EXCEPT !.channel = Append(@, event), !.sent = @ + 1]
    /\ ChunkFrame

\* How often each path of paths was new to pending.
Counted(count, pending, paths) ==
    [p \in DOMAIN count |->
        IF (\E i \in 1..Len(paths) : paths[i] = p) /\ ~\E i \in 1..Len(pending) : pending[i] = p
        THEN count[p] + 1 ELSE count[p]]

\* rx.recv_timeout returns an event after dt ms: the paths of an Ok event
\* are inserted into pending.
LoopRecv(dt) ==
    /\ ix.pc = "recv"
    /\ ix.channel # <<>>
    /\ LET event == Head(ix.channel)
       IN  ix' = [ix EXCEPT !.channel = Tail(@),
                            !.pending = IF event.ok THEN insert_all(@, event.paths) ELSE @,
                            !.inserted = IF event.ok THEN Counted(@, ix.pending, event.paths)
                                         ELSE @,
                            !.elapsed = Later(@, dt),
                            !.pc = "check"]
    /\ ChunkFrame

\* rx.recv_timeout returns Err after 500 ms without an event.
LoopTimeout ==
    /\ ix.pc = "recv"
    /\ ix.channel = <<>>
    /\ ix' = [ix EXCEPT !.elapsed = Later(@, RecvTimeout), !.pc = "check"]
    /\ ChunkFrame

\* The test of the flush: pending.drain() into the batch and last_flush =
\* now, or the next iteration.
LoopCheck ==
    /\ ix.pc = "check"
    /\ IF flush_due(ix.pending, ix.elapsed, ix.debounce_ms)
       THEN ix' = [ix EXCEPT !.batch = ix.pending, !.pending = <<>>, !.elapsed = 0,
                             !.handed = [p \in DOMAIN @ |->
                                            @[p] + Cardinality({i \in 1..Len(ix.pending) :
                                                                   ix.pending[i] = p})],
                             !.pc = "process"]
       ELSE ix' = [ix EXCEPT !.pc = "recv"]
    /\ ChunkFrame

\* `for path in &batch` and the rest of the flush, which take dt ms.
LoopProcess(dt) ==
    /\ ix.pc = "process"
    /\ ix' = [ix EXCEPT !.processed = [p \in DOMAIN @ |->
                                          @[p] + Cardinality({i \in 1..Len(ix.batch) :
                                                                 ix.batch[i] = p})],
                        !.batch = <<>>, !.elapsed = Later(@, dt), !.pc = "recv"]
    /\ ChunkFrame

Waits == {0, MinDebounce \div 2}

LoopStep ==
    \/ \E dt \in Waits : LoopRecv(dt)
    \/ LoopTimeout
    \/ LoopCheck
    \/ \E dt \in Waits : LoopProcess(dt)

LoopNext ==
    \/ \E event \in Events : LoopNotify(event)
    \/ LoopStep

\* The loop of watch_paths and the notify thread; the task of the loop keeps
\* running.
LoopSpec == LoopInit /\ [][LoopNext]_vars /\ WF_vars(LoopStep)

\* A run of the pipeline between two calls of apply; applied gets an entry
\* for every new action.
MergePipelineRun ==
    /\ ix.runs < MaxRuns
    /\ run.op = "idle"
    /\ LET stored(r) ==
               /\ StoreDB(r.db)
               /\ points' = r.points
               /\ ix' = [ix EXCEPT !.runs = @ + 1, !.seq = r.db.seq,
                                   !.last = [op |-> "pipeline", mode |-> "scan",
                                             processed_files |-> r.processed_files]]
               /\ applied' = [a \in DOMAIN r.db.actions |->
                                 IF a \in DOMAIN applied THEN applied[a] ELSE "never"]
       IN  stored(run_with_mode_summary(fs, DB, points, {WRoot}, ix.cfg, "scan", AllUp))
    /\ UNCHANGED <<fs, kwindex, safety, run, calls>>

\* Two files of one content, or of two, under the root; a trash directory.
MergeInit ==
    \E b \in {TextAB, TextA}, h \in HashModes, trash_dir \in {NoPath, TrashDir} :
        /\ fs = (WA :> [bytes |-> TextAB, mtime |-> 0]) @@ (WB :> [bytes |-> b, mtime |-> 0])
        /\ files = <<>>
        /\ file_meta = <<>>
        /\ chunks = {}
        /\ metadata = {}
        /\ actions = <<>>
        /\ file_tags = {}
        /\ tags = {}
        /\ dirty = <<>>
        /\ audit = <<>>
        /\ points = <<>>
        /\ kwindex = [built |-> FALSE, docs |-> {}]
        /\ safety = [allow_paths |-> <<>>, deny_paths |-> <<>>, trash_dir |-> trash_dir,
                     copy_then_delete |-> FALSE, immediate_vector_delete |-> FALSE]
        /\ run = Idle
        /\ applied = <<>>
        /\ calls = 0
        /\ ix = [seq |-> [files |-> 0, chunks |-> 0, actions |-> 0], ops |-> 0, edits |-> 0,
                 runs |-> 0,
                 cfg |-> [hash_mode |-> h, qdrant |-> FALSE, batch_size |-> 1],
                 last |-> NoLast, tree |-> fs]

MergeNext ==
    \/ MergePipelineRun
    \/ \E conflict \in Policies : ApplyBegin(FALSE, [all |-> TRUE, ids |-> {}], conflict)
    \/ ApplyRow
    \/ ApplyReturn

\* Runs of the pipeline over a tree with duplicates, and apply of all that
\* they planned.
MergeSpec == MergeInit /\ [][MergeNext]_vars

\* A flush of the watcher between two calls of apply or undo.
WatchFlush(batch) ==
    /\ run.op = "idle"
    /\ WatchBatch(batch, AllUp)

UndoWatchTree ==
    (WA :> [bytes |-> TextAB, mtime |-> 0]) @@ (WB :> [bytes |-> TextA, mtime |-> 0])

\* A tree that was scanned and extracted, a planned move of its first file
\* out of the watched root, and the watcher running.
UndoWatchInit ==
    \E h \in HashModes, trash_dir \in {NoPath, TrashDir}, copy_then_delete \in BOOLEAN :
        LET over(tree, d) ==
                /\ fs = tree
                /\ files = d.files
                /\ file_meta = d.meta
                /\ chunks = d.chunks
                /\ metadata = d.metadata
                /\ actions = (1 :> Planned(FileId(d, WA), "move", [to |-> Dst]))
                /\ file_tags = d.file_tags
                /\ tags = d.tags
                /\ dirty = d.dirty
                /\ audit = d.audit
                /\ points = <<>>
                /\ kwindex = [built |-> FALSE, docs |-> {}]
                /\ safety = [allow_paths |-> <<>>, deny_paths |-> <<>>,
                             trash_dir |-> trash_dir, copy_then_delete |-> copy_then_delete,
                             immediate_vector_delete |-> FALSE]
                /\ run = Idle
                /\ applied = <<"never">>
                /\ calls = 0
                /\ ix = [seq |-> [d.seq EXCEPT !.actions = 1], ops |-> 0, edits |-> 0,
                         runs |-> 0,
                         cfg |-> [hash_mode |-> h, qdrant |-> FALSE, batch_size |-> 1],
                         last |-> NoLast]
            scanned(tree) == over(tree, run_extractor(tree, scan(tree, EmptyDB, {WRoot}, h)).db)
        IN  scanned(UndoWatchTree)

UndoWatchNext ==
    \/ \E conflict \in {"rename", "skip"} : ApplyBegin(FALSE, [all |-> TRUE, ids |-> {}], conflict)
    \/ ApplyRow
    \/ ApplyReturn
    \/ \E batch \in Batches : WatchFlush(batch)
    \/ UndoBegin([all |-> TRUE, ids |-> {}], NoPath)
    \/ UndoRow
    \/ UndoReturn

\* apply and undo of a move next to the watcher.
UndoWatchSpec == UndoWatchInit /\ [][UndoWatchNext]_vars

\* One rule with a move and a rename, and a second rule for the same files.
RuleMoveAndRename ==
    [name |-> "both", priority |-> 1, enabled |-> TRUE,
     condition |-> [type |-> "extension", ext |-> <<"m", "d">>],
     actions |-> <<[type |-> "move", to |-> Dst], [type |-> "rename", template |-> DstNoExt]>>]

RuleRenameUnderRoot ==
    [name |-> "root", priority |-> 3, enabled |-> TRUE,
     condition |-> [type |-> "path_prefix", prefix |-> WRoot],
     actions |-> <<[type |-> "rename", template |-> DstNoExt]>>]

StackRuleSets == {<<RuleMoveMd>>, <<RuleMoveAndRename>>, <<RuleMoveMd, RuleRenameUnderRoot>>}

\* An indexed tree, the rules table, a trash directory, and no action yet.
StackInit ==
    \E rules \in StackRuleSets :
        LET over(tree, d) ==
                /\ fs = tree
                /\ files = d.files
                /\ file_meta = d.meta
                /\ chunks = d.chunks
                /\ metadata = d.metadata
                /\ actions = d.actions
                /\ file_tags = d.file_tags
                /\ tags = d.tags
                /\ dirty = d.dirty
                /\ audit = d.audit
                /\ points = <<>>
                /\ kwindex = [built |-> FALSE, docs |-> {}]
                /\ safety = [allow_paths |-> <<>>, deny_paths |-> <<>>, trash_dir |-> TrashDir,
                             copy_then_delete |-> FALSE, immediate_vector_delete |-> FALSE]
                /\ run = Idle
                /\ applied = <<>>
                /\ calls = 0
                /\ ix = [seq |-> d.seq, ops |-> 0, edits |-> 0, runs |-> 0,
                         cfg |-> [hash_mode |-> "none", qdrant |-> FALSE, batch_size |-> 1,
                                  rules |-> rules],
                         last |-> NoLast]
            indexed(tree) ==
                over(tree, run_extractor(tree, scan(tree, EmptyDB, {WRoot}, "none")).db)
        IN  indexed((WA :> [bytes |-> TextAB, mtime |-> 0]) @@ (WC :> [bytes |-> TextA, mtime |-> 0]))

StackNext ==
    \/ run.op = "idle" /\ RunSuggester
    \/ \E filter \in Filters, conflict \in {"rename", "skip"} : ApplyBegin(FALSE, filter, conflict)
    \/ ApplyRow
    \/ ApplyReturn
    \/ \E filter \in Filters : UndoBegin(filter, NoPath)
    \/ UndoRow
    \/ UndoReturn

\* The suggester with apply and undo between its runs.
StackSpec == StackInit /\ [][StackNext]_vars

-----------------------------------------------------------------------------
(* Properties *)

\* The row a handler is about to process, and its file's path.
RowStep(op) == run.op = op /\ run.queue # <<>>
CurId == Head(run.queue)
CurRow == actions[CurId]
CurPath == files[CurRow.file_id]
LastView == run.views[Len(run.views)]

\* C1: every status stays in {planned, executed, error} and moves only along
\* planned -> executed and planned -> error (in apply) and executed -> planned
\* (in undo); apply leaves every row that is not planned as it is, undo every
\* row that is not executed, and a row in error is never changed.
StatusMachine ==
    [][\A a \in DOMAIN actions :
          /\ actions'[a].status \in {"planned", "executed", "error"}
          /\ actions'[a].status # actions[a].status =>
                \/ /\ run.op = "apply"
                   /\ actions[a].status = "planned"
                   /\ actions'[a].status \in {"executed", "error"}
                \/ /\ run.op = "undo"
                   /\ actions[a].status = "executed"
                   /\ actions'[a].status = "planned"
          /\ run.op = "apply" /\ actions[a].status # "planned" => actions'[a] = actions[a]
          /\ run.op = "undo" /\ actions[a].status # "executed" => actions'[a] = actions[a]
          /\ actions[a].status = "error" => actions'[a] = actions[a]]_vars

\* One row was executed and undone (planned again), the other is in error,
\* and a third call has started.
StatusMachineWitness ==
    /\ calls = 2
    /\ \E a, b \in DOMAIN actions :
          /\ actions[a].status = "planned"
          /\ applied[a] # "never"
          /\ actions[b].status = "error"

\* The claim's own reading of "denied": a deny prefix matches, or the allow
\* list is non-empty and none of its prefixes matches.
Denied(path) ==
    \/ \E i \in 1..Len(safety.deny_paths) : StartsWith(path, safety.deny_paths[i])
    \/ /\ safety.allow_paths # <<>>
       /\ \A i \in 1..Len(safety.allow_paths) : ~StartsWith(path, safety.allow_paths[i])

\* C2: in a non-dry-run apply, processing a planned action whose path is
\* denied leaves the filesystem unchanged and sets the row to error, with
\* error message "path denied".
DeniedPathUntouched ==
    [][RowStep("apply") /\ ~run.dry_run /\ Denied(CurPath) =>
          /\ fs' = fs
          /\ actions'[CurId].status = "error"
          /\ run'.views[Len(run'.views)].error = "path denied"]_vars

\* A path matched by allow and by deny was rejected, its file still in place.
DeniedPathWitness ==
    /\ run.op = "apply"
    /\ run.views # <<>>
    /\ LastView.error = "path denied"
    /\ actions[LastView.id].status = "error"
    /\ actions[LastView.id].kind = "move"
    /\ files[actions[LastView.id].file_id] = SrcA
    /\ safety.allow_paths = <<AllowS>>
    /\ safety.deny_paths = <<DenySA>>
    /\ Exists(fs, SrcA)

\* C3 as stated: for an executed move with a recorded backup whose original
\* path does not exist, the undo of the row makes the original path hold
\* the content the file had before apply, sets the row to planned with
\* executed_at NULL and marks the path dirty with reason 'undo'.
UndoRestoresPreApplyContent ==
    [][RowStep("undo") /\ CurRow.kind = "move" /\ CurRow.backup_path # NoPath
         /\ ~Exists(fs, CurPath) =>
          /\ Exists(fs', CurPath)
          /\ fs'[CurPath] = applied[CurId]
          /\ actions'[CurId].status = "planned"
          /\ actions'[CurId].executed_at = "NULL"
          /\ CurPath \in DOMAIN dirty'
          /\ dirty'[CurPath] = "undo"]_vars

\* C3 amended: undo restores from the backup override when one is passed
\* and from backup_path otherwise.  When that source is an existing file and
\* the original path does not exist, the original path receives the
\* source's content (with no override: the content the file had before
\* apply), the row goes back to planned with executed_at NULL and the path
\* is marked dirty with reason 'undo'.  When the source is no file (the
\* trash directory recorded for a skipped move, a missing override) the
\* filesystem, the row and the dirty queue stay as they are.
UndoRestoresFromBackupSource ==
    [][RowStep("undo") /\ CurRow.kind = "move" /\ CurRow.backup_path # NoPath
         /\ ~Exists(fs, CurPath) =>
          LET source == IF run.backup_override # NoPath THEN run.backup_override
                        ELSE CurRow.backup_path
          IN  IF Exists(fs, source)
              THEN /\ Exists(fs', CurPath)
                   /\ fs'[CurPath] = fs[source]
                   /\ run.backup_override = NoPath => fs'[CurPath] = applied[CurId]
                   /\ \A p \in DOMAIN fs : Exists(fs', p) /\ fs'[p] = fs[p]
                   /\ actions'[CurId].status = "planned"
                   /\ actions'[CurId].executed_at = "NULL"
                   /\ CurPath \in DOMAIN dirty'
                   /\ dirty'[CurPath] = "undo"
              ELSE /\ fs' = fs
                   /\ actions' = actions
                   /\ dirty' = dirty]_vars

\* An applied move was undone from its recorded backup: the original path
\* holds the content it had before apply again.
UndoRestoresWitness ==
    /\ run.op = "undo"
    /\ run.backup_override = NoPath
    /\ run.queue = <<>>
    /\ \E i \in 1..Len(run.rows) :
          LET a == actions[run.rows[i]]
              path == files[a.file_id]
          IN  /\ a.kind = "move"
              /\ a.status = "planned"
              /\ a.executed_at = "NULL"
              /\ a.backup_path # NoPath
              /\ Exists(fs, a.backup_path)
              /\ Exists(fs, path)
              /\ fs[path] = applied[run.rows[i]]
              /\ fs[path] = fs[a.backup_path]
              /\ path \in DOMAIN dirty
              /\ dirty[path] = "undo"

\* C4: undo never overwrites a live file: the undo of any row leaves every
\* existing file with its content, and the undo of a row whose original path
\* exists leaves the filesystem, the row (status, executed_at) and the dirty
\* queue unchanged.
UndoNeverOverwrites ==
    [][RowStep("undo") =>
          /\ \A p \in DOMAIN fs : Exists(fs', p) /\ fs'[p] = fs[p]
          /\ Exists(fs, CurPath) =>
                /\ fs' = fs
                /\ actions' = actions
                /\ dirty' = dirty]_vars

\* Undo ran over one executed row that has a backup file while its original
\* path held a file: the row is still executed, the file is not the backup.
UndoSkipWitness ==
    /\ run.op = "undo"
    /\ run.queue = <<>>
    /\ run.backup_override = NoPath
    /\ Len(run.rows) = 1
    /\ LET a == actions[run.rows[1]]
           path == files[a.file_id]
       IN  /\ a.status = "executed"
           /\ a.executed_at = "now"
           /\ a.backup_path # NoPath
           /\ Exists(fs, a.backup_path)
           /\ Exists(fs, path)
           /\ fs[path] # fs[a.backup_path]

\* The step is the non-dry-run processing of a row of the given kinds whose
\* path passes the allow/deny lists.
Applies(kinds) ==
    /\ RowStep("apply")
    /\ ~run.dry_run
    /\ ~Denied(CurPath)
    /\ CurRow.kind \in kinds

InTrash(p) == safety.trash_dir # NoPath /\ Parent(p) = safety.trash_dir

\* C5 as stated: whenever apply leaves a row executed with a non-null
\* backup_path, backup_path names a file in the trash directory that did not
\* exist before, now holds the content the source had before the action, and
\* no file that was in the trash changed.
BackupPathNamesBackup ==
    [][/\ RowStep("apply")
       /\ ~run.dry_run
       /\ actions'[CurId].status = "executed"
       /\ actions'[CurId].backup_path # NoPath
       =>
       LET bp == actions'[CurId].backup_path
       IN  /\ InTrash(bp)
           /\ ~Exists(fs, bp)
           /\ Exists(fs', bp)
           /\ Exists(fs, CurPath)
           /\ fs'[bp] = fs[CurPath]
           /\ \A p \in DOMAIN fs : InTrash(p) => Exists(fs', p) /\ fs'[p] = fs[p]]_vars

\* The n-th name the claim expects for a destination.
Renamed(to, n) == Join(Parent(to), CounterName(FileStem(to), n, Extension(to)))

\* C6: under conflict policy rename, a move or rename of an existing source
\* onto an existing destination moves the file to {stem}_{n}{.ext} in the
\* destination's directory for the smallest n >= 1 whose name is free, and
\* every file that existed (the destination, the {stem}_{k}) keeps its
\* content.  /d/a.t gives /d/a_1.t, /d/b gives /d/b_1.
RenameTakesFirstFree ==
    [][/\ Applies({"move", "rename"})
       /\ run.conflict = "rename"
       /\ Exists(fs, Field(CurRow.payload, "to"))
       /\ Exists(fs, CurPath)
       /\ Field(CurRow.payload, "to") # CurPath
       =>
       LET to == Field(CurRow.payload, "to")
       IN  \E n \in 1..(Cardinality(DOMAIN fs) + 1) :
              /\ ~Exists(fs, Renamed(to, n))
              /\ \A k \in 1..(n - 1) : Exists(fs, Renamed(to, k))
              /\ Exists(fs', Renamed(to, n))
              /\ fs'[Renamed(to, n)] = fs[CurPath]
              /\ ~Exists(fs', CurPath)
              /\ \A p \in DOMAIN fs \ {CurPath} : Exists(fs', p) /\ fs'[p] = fs[p]
              /\ to = Dst /\ n = 1 => Renamed(to, n) = Dst1
              /\ to = Dst /\ n = 2 =>
                    Renamed(to, n) = <<"/", "d", "/", "a", "_", "2", ".", "t">>
              /\ to = DstNoExt /\ n = 1 =>
                    Renamed(to, n) = <<"/", "d", "/", "b", "_", "1">>
              /\ actions'[CurId].status = "executed"]_vars

\* /d/a.t and /d/a_1.t existed: the move went to /d/a_2.t and both kept
\* their content.
RenameSecondWitness ==
    /\ run.op = "apply"
    /\ run.conflict = "rename"
    /\ run.views # <<>>
    /\ LastView.status = "executed"
    /\ actions[LastView.id].kind = "move"
    /\ actions[LastView.id].payload = [to |-> Dst]
    /\ Exists(fs, Dst) /\ fs[Dst] = "c3"
    /\ Exists(fs, Dst1) /\ fs[Dst1] = "c4"
    /\ Exists(fs, <<"/", "d", "/", "a", "_", "2", ".", "t">>)
    /\ fs[<<"/", "d", "/", "a", "_", "2", ".", "t">>] = applied[LastView.id]
    /\ ~Exists(fs, files[actions[LastView.id].file_id])

\* C7: under conflict policy skip, a move or rename whose destination exists
\* changes nothing on the filesystem: source, destination and trash stay as
\* they are and no backup is written.
SkipChangesNothing ==
    [][/\ Applies({"move", "rename"})
       /\ run.conflict = "skip"
       /\ Exists(fs, Field(CurRow.payload, "to"))
       =>
       fs' = fs]_vars

\* A move onto an existing destination was skipped with a trash directory
\* configured: source and destination are in place, the trash is empty.
SkipWitness ==
    /\ run.op = "apply"
    /\ run.conflict = "skip"
    /\ ~run.dry_run
    /\ run.views # <<>>
    /\ LastView.error = ""
    /\ actions[LastView.id].kind = "move"
    /\ actions[LastView.id].payload = [to |-> Dst]
    /\ safety.trash_dir = TrashDir
    /\ Exists(fs, files[actions[LastView.id].file_id])
    /\ Exists(fs, Dst) /\ fs[Dst] = "c3"
    /\ \A p \in DOMAIN fs : ~InTrash(p)

\* The canonical file's row: the file whose path is the payload's duplicate_of.
CanonicalPath == Field(CurRow.payload, "duplicate_of")
CanonicalId == CHOOSE i \in DOMAIN files : files[i] = CanonicalPath

\* C8 as stated: after apply executes a merge_duplicate action, every tag of
\* the duplicate's file row is attached to the canonical file's row too and
\* the canonical keeps its own tags.
MergeCopiesTags ==
    [][/\ Applies({"merge_duplicate"})
       /\ actions'[CurId].status = "executed"
       =>
       /\ \A ft \in file_tags :
             ft[1] = CurRow.file_id => <<CanonicalId, ft[2]>> \in file_tags'
       /\ \A ft \in file_tags : ft[1] = CanonicalId => ft \in file_tags']_vars

IsReplace(payload) == Has(payload, "strategy") /\ payload["strategy"] = "replace"

\* C9: applying a merge_duplicate action with a strategy other than replace
\* to an existing duplicate removes the duplicate, leaves the canonical
\* file's path and content unchanged and, when a trash directory is
\* configured, leaves a new file in the trash that holds the duplicate's
\* content and is recorded as backup_path; the action ends executed.
MergeTrashRemovesDuplicate ==
    [][/\ Applies({"merge_duplicate"})
       /\ ~IsReplace(CurRow.payload)
       /\ Exists(fs, CurPath)
       =>
       /\ ~Exists(fs', CurPath)
       /\ Exists(fs', CanonicalPath) = Exists(fs, CanonicalPath)
       /\ Exists(fs, CanonicalPath) => fs'[CanonicalPath] = fs[CanonicalPath]
       /\ actions'[CurId].status = "executed"
       /\ safety.trash_dir # NoPath =>
             LET bp == actions'[CurId].backup_path
             IN  /\ InTrash(bp)
                 /\ ~Exists(fs, bp)
                 /\ Exists(fs', bp)
                 /\ fs'[bp] = fs[CurPath]]_vars

\* A duplicate was merged with strategy trash: it is gone, the canonical
\* holds its own content, the row's backup_path holds the duplicate's.
MergeTrashWitness ==
    /\ run.op = "apply"
    /\ run.views # <<>>
    /\ LastView.status = "executed"
    /\ actions[LastView.id].kind = "merge_duplicate"
    /\ ~IsReplace(actions[LastView.id].payload)
    /\ ~Exists(fs, SrcB)
    /\ Exists(fs, Dst) /\ fs[Dst] = "c3"
    /\ Exists(fs, actions[LastView.id].backup_path)
    /\ fs[actions[LastView.id].backup_path] = "c2"
    /\ applied[LastView.id] = "c2"

\* C10: applying a merge_duplicate action with strategy replace to an
\* existing duplicate is an overwrite move whatever conflict policy the
\* caller passed: afterwards the canonical path holds the duplicate's content
\* and the duplicate path does not exist.
MergeReplaceOverwrites ==
    [][/\ Applies({"merge_duplicate"})
       /\ IsReplace(CurRow.payload)
       /\ Exists(fs, CurPath)
       =>
       /\ Exists(fs', CanonicalPath)
       /\ fs'[CanonicalPath] = fs[CurPath]
       /\ ~Exists(fs', CurPath)
       /\ actions'[CurId].status = "executed"]_vars

\* Under policy skip a replace overwrote a canonical that existed (its _1
\* neighbour is still there): the canonical holds the duplicate's content.
MergeReplaceWitness ==
    /\ run.op = "apply"
    /\ run.conflict = "skip"
    /\ run.views # <<>>
    /\ LastView.status = "executed"
    /\ actions[LastView.id].kind = "merge_duplicate"
    /\ IsReplace(actions[LastView.id].payload)
    /\ actions[1].kind = "tag"
    /\ ~Exists(fs, SrcB)
    /\ Exists(fs, Dst1)
    /\ Exists(fs, Dst) /\ fs[Dst] = "c2"

-----------------------------------------------------------------------------
(* Properties of the indexing side *)

PlannedOf(id, kind) ==
    {a \in DOMAIN actions :
        actions[a].file_id = id /\ actions[a].kind = kind /\ actions[a].status = "planned"}

\* C13: when two file rows share a hash then, after any number of pipeline
\* runs over the same tree, there is exactly one planned dedupe action and
\* exactly one planned merge_duplicate action for the pair, both on the newer
\* file with duplicate_of naming the older one, and the older file has
\* neither.
DedupeOnePair ==
    \A i, j \in DOMAIN files :
        /\ i < j
        /\ ix.last.op = "pipeline"
        /\ ix.edits = 0
        /\ file_meta[i].hash # NoHash
        /\ file_meta[i].hash = file_meta[j].hash
        =>
        /\ \A kind \in {"dedupe", "merge_duplicate"} :
              /\ Cardinality(PlannedOf(j, kind)) = 1
              /\ \A a \in PlannedOf(j, kind) : actions[a].payload.duplicate_of = files[i]
              /\ PlannedOf(i, kind) = {}


\* A step of run_suggester, and the rows it inserted.
SuggesterStep == ix'.runs = ix.runs + 1 /\ ix'.last.op = "suggest"
Inserted == DOMAIN actions' \ DOMAIN actions

\* C14: once a file has a planned move or rename action, a later
\* run_suggester inserts no further move or rename action for that file, as
\* long as that action is still planned when it runs.
NoSecondMoveWhilePlanned ==
    [][SuggesterStep =>
          \A id \in DOMAIN files :
              PlannedOf(id, "move") \cup PlannedOf(id, "rename") # {} =>
                  \A a \in Inserted :
                      ~(actions'[a].file_id = id /\ actions'[a].kind \in {"move", "rename"})]_vars

\* A run of the suggester found a file with a planned move or rename and
\* planned actions for another file.
NoSecondMoveWitness ==
    /\ ix.last.op = "suggest"
    /\ \E id \in DOMAIN files :
          /\ \E a \in DOMAIN ix.last.before :
                /\ ix.last.before[a].file_id = id
                /\ ix.last.before[a].status = "planned"
                /\ ix.last.before[a].kind \in {"move", "rename"}
          /\ \E b \in DOMAIN actions \ DOMAIN ix.last.before : actions[b].file_id # id


\* C15: run_suggester on an unchanged database is idempotent per (file,
\* rule, action kind): a run adds no action row for a file, kind and payload
\* (the payload tells the rules of the table apart) that already has a
\* planned row, tag actions of rules that emit only tags included.
SuggesterIdempotent ==
    [][SuggesterStep =>
          \A a \in Inserted :
              ~\E b \in DOMAIN actions :
                  /\ actions[b].status = "planned"
                  /\ actions[b].file_id = actions'[a].file_id
                  /\ actions[b].kind = actions'[a].kind
                  /\ actions[b].payload = actions'[a].payload]_vars


\* A step of run_extractor that returned Ok.
ExtractorStep == ix'.ops = ix.ops + 1 /\ ix'.last.op = "extract" /\ ix'.last.ok

\* The hashes of the chunks of the file as it is now.
CurrentChunkHashes(path) ==
    {extract(fs, path).chunks[i].hash : i \in 1..Len(extract(fs, path).chunks)}

StoredChunkHashes(id) == {c.hash : c \in {x \in chunks : x.file_id = id}}

\* C16: when a scan has recorded a change of a file's content (its row was
\* updated and the path marked dirty), the next run_extractor re-extracts
\* the file: afterwards the chunk hashes stored for it are exactly those of
\* the new content, in every hash mode.
ReExtractsChangedContent ==
    [][ExtractorStep /\ ix.last.op = "scan" =>
          \A p \in ix.last.changed :
              Exists(fs, p) /\ p \in DOMAIN dirty =>
                  StoredChunkHashes(FileId(DB, p))' = CurrentChunkHashes(p)]_vars


FileChunks(cs, id) == {c \in cs : c.file_id = id}

\* C17: run_extractor on a dirty file whose content is the one its chunks
\* were extracted from inserts no chunk row and deletes none: the rows of
\* the file, ids included, are the same afterwards.
UnchangedContentKeepsChunks ==
    [][ix'.ops = ix.ops + 1 /\ ix'.last.op = "extract" =>
          \A id \in DOMAIN files :
              /\ files[id] \in DOMAIN dirty
              /\ Exists(fs, files[id])
              /\ StoredChunkHashes(id) = CurrentChunkHashes(files[id])
              => FileChunks(chunks', id) = FileChunks(chunks, id)]_vars

\* The extractor went through the chunk comparison (the stored hash did not
\* match) for a dirty file that had the chunks of its content, and left
\* them.
UnchangedContentWitness ==
    /\ ix.last.op = "extract"
    /\ ix.last.ok
    /\ \E id \in DOMAIN files :
          /\ files[id] \in DOMAIN ix.last.before.dirty
          /\ Exists(fs, files[id])
          /\ ~hash_matches(fs, ix.last.before.meta[id], files[id])
          /\ FileChunks(ix.last.before.chunks, id) # {}
          /\ {c.hash : c \in FileChunks(ix.last.before.chunks, id)}
                = CurrentChunkHashes(files[id])
          /\ FileChunks(chunks, id) = FileChunks(ix.last.before.chunks, id)


\* A step of run_embedder_for_files, and the state in which every chunk
\* has its point.
EmbedderStep == ix'.ops = ix.ops + 1 /\ ix'.last.op = "embed"
AllEmbedded == chunks # {} /\ \A c \in chunks : c.hash \in DOMAIN points

HashesOf(cs) == {c.hash : c \in cs}

\* C19: when a re-extraction drops a chunk hash (stored before, absent from
\* the new extraction), the chunk leaves the chunks table and its point
\* leaves the vector store: after the extraction no point is left whose
\* chunk is no longer stored.
DroppedChunkLosesPoint ==
    [][ExtractorStep =>
          \A h \in HashesOf(chunks) \ HashesOf(chunks') : h \notin DOMAIN points']_vars


\* A flush of the watcher, the paths of its batch that were gone, and the
\* id their file row had.
WatchStep == ix'.ops = ix.ops + 1 /\ ix'.last.op = "watch"
Gone(batch) == {batch[i] : i \in {j \in 1..Len(batch) : ~Exists(fs, batch[j])}}

\* C11: after the watcher has processed a batch with a path that no longer
\* exists, no row of files has the path and no row of chunks, metadata,
\* file_tags or actions refers to the file the path had.
PurgeLeavesNoRow ==
    [][WatchStep =>
          \A p \in Gone(ix'.last.batch) :
              /\ \A i \in DOMAIN files' : files'[i] # p
              /\ FileId(DB, p) # 0 =>
                    /\ \A c \in chunks' : c.file_id # FileId(DB, p)
                    /\ \A m \in metadata' : m.file_id # FileId(DB, p)
                    /\ \A ft \in file_tags' : ft[1] # FileId(DB, p)
                    /\ \A a \in DOMAIN actions' : actions'[a].file_id # FileId(DB, p)]_vars

\* The watcher purged a file that had chunks, metadata, tags and planned
\* actions.
PurgeWitness ==
    /\ ix.last.op = "watch"
    /\ \E i \in DOMAIN ix.last.before.files :
          /\ \E j \in 1..Len(ix.last.batch) : ix.last.batch[j] = ix.last.before.files[i]
          /\ ~Exists(fs, ix.last.before.files[i])
          /\ i \in ix.last.before.chunks
          /\ i \in ix.last.before.metadata
          /\ i \in ix.last.before.file_tags
          /\ i \in ix.last.before.actions
          /\ i \notin DOMAIN files


\* What the watcher collected for the paths of the batch that were gone.
GoneHashes(batch) == UNION {HashesOf(FileChunks(chunks, FileId(DB, p))) : p \in Gone(batch)}
GoneFileHashes(batch) ==
    {collect_hashes(DB, p).file_hash : p \in Gone(batch)} \ {NoHash}

\* C12: with immediate_vector_delete and a remote vector store, after the
\* watcher has processed a deleted path no point is left whose payload path
\* is that path: every point that matches any one of the removed paths,
\* chunk hashes or file hashes is removed, and every point whose id is a
\* collected chunk hash.
VectorDeleteRemovesPath ==
    [][WatchStep /\ safety.immediate_vector_delete /\ ix.cfg.qdrant
       /\ Gone(ix'.last.batch) # {} =>
          /\ \A h \in DOMAIN points' : points'[h].path \notin Gone(ix'.last.batch)
          /\ \A h \in DOMAIN points :
                \/ points[h].path \in Gone(ix'.last.batch)
                \/ Field(points[h], "hash") \in GoneHashes(ix'.last.batch)
                \/ Field(points[h], "file_hash") \in GoneFileHashes(ix'.last.batch)
                \/ h \in GoneHashes(ix'.last.batch)
                => h \notin DOMAIN points']_vars


\* C20: under any interleaving of the producers of the dirty queue and its
\* two consumers, every entry is consumed by both the extractor and the
\* keyword-index refresher: whenever a row leaves the queue, both have
\* processed the entry it held (so a consumer removes it only after its own
\* processing, and never before the other's).
DirtyConsumedByBoth ==
    [][\A p \in DOMAIN dirty \ DOMAIN dirty' :
          ix'.pending[p].ext /\ ix'.pending[p].ref]_vars


-----------------------------------------------------------------------------
(* Properties of the batches and of the scanner *)

\* The return of a handler: every row of the batch has been processed.
ReturnStep(op) == run.op = op /\ run.queue = <<>> /\ run' = Idle

\* C21: when a non-dry-run apply batch returns, the path of every action it
\* processed and, when the payload names one, its destination are in the
\* dirty queue with reason apply, whether the action ended executed or in
\* error, rejected by the safety gate included.
AppliedPathsAreDirty ==
    [][ReturnStep("apply") /\ ~run.dry_run =>
          \A i \in 1..Len(run.rows) :
              LET row == actions[run.rows[i]]
                  ps == dirty_paths(files[row.file_id], row.payload)
              IN  \A j \in 1..Len(ps) : ps[j] \in DOMAIN dirty /\ dirty[ps[j]] = "apply"]_vars


\* The audit event of a status an action moves to.
EventOf(status) ==
    CASE status = "executed" -> "action_executed"
      [] status = "error" -> "action_error"
      [] status = "planned" -> "action_undone"

\* C22: every change of the status of an action appends a row to the audit
\* table that carries the id of the action and the event of the new status
\* (action_executed, action_error, or action_undone for a successful undo),
\* and the rows the table already had are neither changed nor deleted.
AuditRecordsTransitions ==
    [][/\ Len(audit') >= Len(audit)
       /\ SubSeq(audit', 1, Len(audit)) = audit
       /\ \A a \in DOMAIN actions :
             actions'[a].status # actions[a].status =>
                 \E i \in (Len(audit) + 1)..Len(audit') :
                     /\ audit'[i].action_id = a
                     /\ audit'[i].event = EventOf(actions'[a].status)]_vars


\* A run of run_extractor, whatever it returned.
ExtractorRun == ix'.ops = ix.ops + 1 /\ ix'.last.op = "extract"

\* C23: a run of run_extractor returns Ok even when a dirty file cannot be
\* extracted (it is no longer on disk), and every dirty file that is on disk
\* is still handled by the run: its dirty row is consumed.
ExtractorAbsorbsFileErrors ==
    [][ExtractorRun =>
          /\ ix'.last.ok
          /\ \A p \in DOMAIN dirty :
                Exists(fs, p) /\ FileId(DB, p) # 0 => p \notin DOMAIN dirty']_vars


\* C24: a run of run_embedder_for_files in which the embedding provider or
\* the vector store fails returns successfully, with a count that did not
\* grow for the failed batch (it counts the chunks whose point was upserted).
EmbedderAbsorbsRemoteErrors ==
    [][EmbedderStep /\ ~(ix'.last.remote.embed_ok /\ ix'.last.remote.upsert_ok) =>
          /\ ix'.last.ok
          /\ ix'.last.embedded = ix'.last.upserted]_vars


\* The paths that have a document in the keyword index, and those of the
\* files table.
IndexedPaths(kw) == {doc.path : doc \in kw.docs}
FilePaths(fls) == {fls[i] : i \in DOMAIN fls}

\* C25: when a flush has run refresh_keyword_index_if_dirty and the dirty
\* queue is empty, the keyword index holds a document for exactly the paths
\* of the files table, whether the refresh built the index or updated it.
KeywordIndexMatchesFiles ==
    [][WatchStep /\ kwindex'.built /\ DOMAIN dirty' = {} =>
          IndexedPaths(kwindex') = FilePaths(files')]_vars


DryRunHasNoEffect ==
    [][/\ run'.op = "apply" /\ run'.dry_run =>
              UNCHANGED <<fs, actions, tags, file_tags, dirty>>
       /\ ReturnStep("apply") /\ run.dry_run =>
              /\ UNCHANGED <<fs, actions, tags, file_tags, dirty>>
              /\ \E filter \in Filters : run.rows = SelectRows("planned", filter)
              /\ Len(run.views) = Len(run.rows)
              /\ \A i \in 1..Len(run.rows) :
                    /\ run.views[i].id = run.rows[i]
                    /\ run.views[i].status = "planned"
                    /\ run.views[i].error = ""
                    /\ actions[run.rows[i]].status = "planned"]_vars

\* A dry run has listed two planned actions, one of them on a denied path.
DryRunWitness ==
    /\ run.op = "apply"
    /\ run.dry_run
    /\ run.queue = <<>>
    /\ Len(run.views) = 2
    /\ \E a \in DOMAIN actions :
          ~is_allowed(files[actions[a].file_id], safety.allow_paths, safety.deny_paths)


ScanStep == ix'.ops = ix.ops + 1 /\ ix'.last.op = "scan"

\* The size, mtime and hash of item are those of its row of the files table.
SameAsStored(item) ==
    LET m == file_meta[FileId(DB, item.path)]
    IN  m.size = item.size /\ m.mtime = item.mtime /\ m.hash = item.hash

\* C28: a scan leaves the row and the dirty entry of a path alone when the
\* size, mtime and hash it found equal the stored ones; when one differs the
\* row takes the three values, its status becomes seen and the path is
\* enqueued with reason rescan; a path met for the first time is inserted and
\* enqueued.
ScannerUpsert ==
    [][ScanStep =>
          LET items == ScannedItems(fs, {WRoot}, ix.cfg.hash_mode)
          IN  \A k \in 1..Len(items) :
                 LET item == items[k]
                     id == FileId(DB, item.path)
                     nid == FileId(DB', item.path)
                 IN  IF id = 0
                     THEN /\ nid \notin DOMAIN files
                          /\ nid \in DOMAIN files'
                          /\ file_meta'[nid].size = item.size
                          /\ file_meta'[nid].mtime = item.mtime
                          /\ file_meta'[nid].hash = item.hash
                          /\ item.path \in DOMAIN dirty'
                          /\ dirty'[item.path] = "rescan"
                     ELSE IF SameAsStored(item)
                     THEN /\ file_meta'[id] = file_meta[id]
                          /\ item.path \in DOMAIN dirty' <=> item.path \in DOMAIN dirty
                          /\ item.path \in DOMAIN dirty => dirty'[item.path] = dirty[item.path]
                     ELSE /\ nid = id
                          /\ file_meta'[id].size = item.size
                          /\ file_meta'[id].mtime = item.mtime
                          /\ file_meta'[id].hash = item.hash
                          /\ file_meta'[id].status = "seen"
                          /\ item.path \in DOMAIN dirty'
                          /\ dirty'[item.path] = "rescan"]_vars

\* A scan found one file changed and left the other, already extracted and
\* no longer dirty, as it was.
ScannerUpsertWitness ==
    /\ ix.last.op = "scan"
    /\ ix.last.changed = {WA}
    /\ FileId(DB, WB) # 0
    /\ Exists(fs, WB)
    /\ WB \notin DOMAIN dirty
    /\ WA \in DOMAIN dirty
    /\ dirty[WA] = "rescan"
    /\ file_meta[FileId(DB, WA)].status = "seen"


\* C29: a scan never replaces a stored hash by null, neither in hash mode
\* none nor when hashing fails.
ScanKeepsStoredHash ==
    [][ScanStep =>
          \A id \in DOMAIN files :
             file_meta[id].hash # NoHash => file_meta'[id].hash # NoHash]_vars


\* The chunks are non-empty, at most max_len long, in increasing order and
\* contiguous from 0 to the length of the text.
WellChunked(text, max_len, cs) ==
    /\ \A i \in 1..Len(cs) :
          /\ cs[i].start < cs[i].end
          /\ cs[i].end - cs[i].start <= max_len
          /\ cs[i].start = IF i = 1 THEN 0 ELSE cs[i - 1].end
    /\ text # <<>> => cs # <<>> /\ cs[Len(cs)].end = Len(text)

\* C30: chunk_text returns for every text and every max_len >= 1, and the
\* chunks it returns are non-empty, at most max_len long, increasing and
\* contiguous, also for texts with spaces and no '.', '!', '?' or newline.
ChunkTextTerminates == <>(ix.returned /\ WellChunked(ix.text, ix.max_len, ix.chunks))


InPending(p) == \E i \in 1..Len(ix.pending) : ix.pending[i] = p

\* C31: pending holds a path at most once; a flush happens only when
\* pending is non-empty and max(debounce_ms, 200) ms have passed since the
\* last one, and moves the whole of pending into one batch; no other step
\* takes a path out of pending, so every path received is handed to one
\* batch, and that batch is processed.
WatchLoopDelivers ==
    /\ [](\A i, j \in 1..Len(ix.pending) : ix.pending[i] = ix.pending[j] => i = j)
    /\ [](\A p \in {WA, WB} :
             ix.inserted[p] = ix.handed[p] + (IF InPending(p) THEN 1 ELSE 0))
    /\ [][/\ ix'.pc = "process" /\ ix.pc # "process" =>
                /\ ix.pending # <<>>
                /\ ix.elapsed >= MinDebounce
                /\ ix.elapsed >= ix.debounce_ms
                /\ ix'.batch = ix.pending
                /\ ix'.pending = <<>>
          /\ ~(ix'.pc = "process" /\ ix.pc # "process") =>
                \A p \in {WA, WB} : InPending(p) => \E i \in 1..Len(ix'.pending) : ix'.pending[i] = p]_vars
    /\ \A p \in {WA, WB} :
          InPending(p) ~> (ix.pc = "recv" /\ ~InPending(p) /\ ix.processed[p] = ix.inserted[p])

\* A path came twice before a flush and once after it: it is in pending
\* again, after a flush that waited for the debounce.
WatchLoopWitness ==
    /\ ix.op = "loop"
    /\ ix.inserted[WB] = 2
    /\ ix.processed[WB] = 1
    /\ ix.sent = MaxEvents
    /\ InPending(WB)
    /\ ix.debounce_ms < MinDebounce


\* The paths that the row of an apply call names: its file and, when the
\* payload has one, the destination or the canonical file.
NamedPaths(row) ==
    {files[row.file_id]}
        \cup (IF Field(row.payload, "to") # <<>> THEN {Field(row.payload, "to")} ELSE {})
        \cup (IF Field(row.payload, "duplicate_of") # <<>>
              THEN {Field(row.payload, "duplicate_of")} ELSE {})

\* C32: with a trash directory, an iteration of a non-dry-run apply destroys
\* no content: what a path named by the action held before is held by some
\* path afterwards (the path itself, the target or a file of the trash).
ApplyKeepsContent ==
    [][RowStep("apply") /\ ~run.dry_run /\ safety.trash_dir # NoPath =>
          \A p \in NamedPaths(CurRow) \cap DOMAIN fs :
             \E q \in DOMAIN fs' : fs'[q] = fs[p]]_vars


\* C33: while the pipeline plans merge_duplicate actions and apply executes
\* them, every content that the tree held (ix.tree) keeps a copy outside the
\* trash.
MergeKeepsACopy ==
    \A q \in DOMAIN ix.tree :
       \E p \in DOMAIN fs : ~StartsWith(p, TrashDir) /\ fs[p].bytes = ix.tree[q].bytes


\* C34: an iteration of a non-dry-run apply creates, overwrites and removes
\* no file at a path that the gate rejects (the backups that it writes into
\* the trash directory aside).
GateCoversWrites ==
    [][RowStep("apply") /\ ~run.dry_run =>
          \A p \in DOMAIN fs \cup DOMAIN fs' :
             /\ ~is_allowed(p, safety.allow_paths, safety.deny_paths)
             /\ ~(safety.trash_dir # NoPath /\ StartsWith(p, safety.trash_dir))
             => /\ p \in DOMAIN fs
                /\ p \in DOMAIN fs'
                /\ fs'[p] = fs[p]]_vars


\* C35: a row becomes executed only with its effect on the file system: the
\* source of a move or rename is gone and a file outside the trash holds
\* what it held; the duplicate of a merge_duplicate is gone.
ExecutedMeansDone ==
    [][/\ RowStep("apply")
       /\ CurRow.status = "planned"
       /\ actions'[CurId].status = "executed"
       => /\ CurRow.kind \in {"move", "rename"} =>
                /\ Exists(fs, CurPath)
                /\ ~Exists(fs', CurPath)
                /\ \E q \in DOMAIN fs' :
                      /\ ~(safety.trash_dir # NoPath /\ StartsWith(q, safety.trash_dir))
                      /\ fs'[q] = fs[CurPath]
          /\ CurRow.kind = "merge_duplicate" => ~Exists(fs', CurPath)]_vars


\* C36: a flush of the watcher keeps every executed action, with its
\* backup_path, and the file row of the action.
WatcherKeepsExecuted ==
    [][WatchStep =>
          \A a \in DOMAIN actions :
             actions[a].status = "executed" =>
                /\ a \in DOMAIN actions'
                /\ actions'[a] = actions[a]
                /\ actions[a].file_id \in DOMAIN files'
                /\ files'[actions[a].file_id] = files[actions[a].file_id]]_vars


\* The files outside the trash directory, with their contents.
OutsideTrash(f) == [p \in {q \in DOMAIN f : ~StartsWith(q, TrashDir)} |-> f[p]]

\* C37: when the undo of the applied move succeeds, the files outside the
\* trash and their contents are those before apply (the tree of the initial
\* state: nothing else writes files in this specification).
ApplyUndoRoundTrip ==
    [][/\ RowStep("undo")
       /\ CurRow.kind = "move"
       /\ actions'[CurId].status = "planned"
       => OutsideTrash(fs') = UndoWatchTree]_vars


\* C38: when a non-dry-run apply returns, the status of every view is the
\* status stored in the row of its action.
ViewStatusMatchesRow ==
    [][ReturnStep("apply") /\ ~run.dry_run =>
          \A i \in 1..Len(run.views) :
             run.views[i].status = actions[run.views[i].id].status]_vars


\* C39: a file never has two planned actions of kind move or rename.
NoStacking ==
    \A a, b \in DOMAIN actions :
       /\ a # b
       /\ actions[a].file_id = actions[b].file_id
       /\ actions[a].status = "planned"
       /\ actions[b].status = "planned"
       => ~(actions[a].kind \in {"move", "rename"} /\ actions[b].kind \in {"move", "rename"})


\* C40: when a flush of the watcher purges deleted files with
\* immediate_vector_delete and a remote store, every chunk row that a
\* remaining file keeps and whose hash had a point before the flush still
\* has a point after it.
PurgeKeepsSharedPoints ==
    [][WatchStep /\ safety.immediate_vector_delete /\ ix.cfg.qdrant
       /\ Gone(ix'.last.batch) # {} =>
          \A c \in chunks \cap chunks' :
              c.file_id \in DOMAIN files' /\ c.hash \in DOMAIN points
                  => c.hash \in DOMAIN points']_vars

=============================================================================
